---- MODULE Spec2Model ----
(***************************************************************************)
(* A model of the JBitPack codec of darkwyrm/gobinpack: the segment codec  *)
(* (base.go), the container codec (SegmentMap, SegmentList), the WireMsg   *)
(* envelope (document.go) and the in-memory stream they run on             *)
(* (membufio/membufio.go).                                                 *)
(*                                                                         *)
(* Byte slices and Go strings are sequences of octets 0..255.  A Go error  *)
(* is a string; NoErr is the nil error.  An integer that Go holds in a     *)
(* 32- or 64-bit word is a Num: a sign and a magnitude of four 16-bit      *)
(* limbs, most significant first, so that the two's-complement big-endian  *)
(* encoding of the setters and accessors is computed, not assumed.         *)
(* Lengths and counts are plain integers.                                  *)
(***************************************************************************)
EXTENDS Integers, Sequences, FiniteSets, TLC

\* ------------------------------------------------------------------ errors

NoErr == "nil"
ErrEmptyData == "empty data"
ErrNetworkError == "network error"
ErrTypeError == "type error"
ErrNotFound == "not found"
ErrInvalidMsg == "invalid message"
ErrSize == "invalid size"
ErrInvalidSegment == "invalid field"
ErrInvalidKey == "invalid key"
ErrSegmentSize == "invalid field size"
ErrIO == "i/o error"
\* membufio returns errors.New("EOF"), a value distinct from io.EOF
ErrEOFText == "EOF"
ErrRange == "index out of range"

\* --------------------------------------------------------------- type tags

DFUnknownType == 0
DFDocumentStart == 1
DFDocumentEnd == 2
DFInt8Type == 3
DFUInt8Type == 4
DFInt16Type == 5
DFUInt16Type == 6
DFInt32Type == 7
DFUInt32Type == 8
DFInt64Type == 9
DFUInt64Type == 10
DFBoolType == 11
DFFloat32Type == 12
DFFloat64Type == 13
DFStringType == 14
DFBinaryType == 15
DFHugeStringType == 16
DFHugeBinaryType == 17
DFMapType == 18
DFListType == 19
DFLargeMapType == 20
DFLargeListType == 21
DFUpperBound == 22

\* the largest length or count of the regular size class
MaxRegular == 65535

\* isTypeCodeValid that takes the upper bound itself for a tag
isTypeCodeValidInclusive(typecode) == typecode <= DFUpperBound /\ typecode > 0

isTypeCodeValid(typecode) == typecode < DFUpperBound /\ typecode > 0

sizeSegmentSize(typeCode) ==
    IF typeCode \in {DFStringType, DFBinaryType} THEN 2
    ELSE IF typeCode \in {DFHugeStringType, DFHugeBinaryType} THEN 8
    ELSE 0

fixedSegmentSize(typeCode) ==
    IF typeCode \in {DFInt8Type, DFUInt8Type, DFBoolType, DFDocumentStart} THEN 1
    ELSE IF typeCode \in {DFInt16Type, DFUInt16Type, DFMapType, DFListType} THEN 2
    ELSE IF typeCode \in {DFInt32Type, DFUInt32Type, DFFloat32Type,
                          DFLargeMapType, DFLargeListType} THEN 4
    ELSE IF typeCode \in {DFInt64Type, DFUInt64Type, DFFloat64Type, DFDocumentEnd} THEN 8
    ELSE 0

\* ------------------------------------------------------------------- bytes

Min(a, b) == IF a < b THEN a ELSE b

\* make([]byte, n)
Zeros(n) == [i \in 1..n |-> 0]

\* a string of n copies of one octet
Fill(n, b) == [i \in 1..n |-> b]

\* the value of an expression, worked out once
Only(S) == CHOOSE only \in S : TRUE

\* p[lo:hi] of Go, for a 1-based sequence
Slice(p, lo, hi) == SubSeq(p, lo + 1, hi)

\* ----------------------------------------------------------------- numbers

Limb == 256 * 256

\* uint64(n) for a length or count n
NumOf(n) == [neg |-> FALSE, mag |-> <<0, 0, n \div Limb, n % Limb>>]
NegOf(n) == [neg |-> TRUE, mag |-> <<0, 0, n \div Limb, n % Limb>>]

RECURSIVE AddOne(_, _)
\* limbs + 1 modulo 2^64, carrying from limb i down to limb 1
AddOne(limbs, i) ==
    IF i = 0 THEN limbs
    ELSE IF limbs[i] = Limb - 1 THEN AddOne([limbs EXCEPT ![i] = 0], i - 1)
    ELSE [limbs EXCEPT ![i] = @ + 1]

\* the two's complement of a 64-bit magnitude
TwosComplement(limbs) == AddOne([i \in 1..4 |-> (Limb - 1) - limbs[i]], 4)

\* uint64(v): the 64-bit pattern of a Go integer
Bits64(v) == IF v.neg THEN TwosComplement(v.mag) ELSE v.mag

\* the 8 octets of a 64-bit pattern, most significant first
LimbBytes(limbs) ==
    [i \in 1..8 |-> IF i % 2 = 1 THEN limbs[(i + 1) \div 2] \div 256
                    ELSE limbs[i \div 2] % 256]

\* binary.BigEndian.PutUintN(uintN(v)): the low `width` octets of the pattern
BigEndian(v, width) == SubSeq(LimbBytes(Bits64(v)), 9 - width, 8)

\* binary.BigEndian.UintN / intN(...): `width` octets read as a Go integer
FromBigEndian(b, width, signed) ==
    LET ext == IF signed /\ b[1] >= 128 THEN 255 ELSE 0
        full == [i \in 1..8 |-> IF i <= 8 - width THEN ext ELSE b[i - (8 - width)]]
        limbs == [i \in 1..4 |-> full[2 * i - 1] * 256 + full[2 * i]]
    IN  IF signed /\ b[1] >= 128
        THEN [neg |-> TRUE, mag |-> TwosComplement(limbs)]
        ELSE [neg |-> FALSE, mag |-> limbs]

\* ------------------------------------------------- membufio.ByteSliceIO
\* An operation that runs in steps binds the result of each step as the
\* parameter of a local operator, in the order of the source.

\* membufio.New(p) and membufio.Make(n): Open leaves the zero value for an
\* empty slice, which is the same record
New(p) == [Buffer |-> p, Index |-> 0, BufferLength |-> Len(p)]
Make(bufsize) == New(Zeros(bufsize))

IsEOF(bs) == bs.Index >= bs.BufferLength

\* ReadAt into a slice of length n: the count, the octets copied, the error
ReadAt(bs, n, offset) ==
    IF n = 0 THEN [n |-> 0, data |-> <<>>, err |-> ErrEmptyData]
    ELSE IF bs.BufferLength - offset <= 0
    THEN [n |-> 0, data |-> <<>>, err |-> ErrEOFText]
    ELSE [n |-> Min(bs.BufferLength - offset, n),
          data |-> Slice(bs.Buffer, offset, offset + Min(bs.BufferLength - offset, n)),
          err |-> NoErr]

\* Read into a slice of length n
Read(bs, n) ==
    LET Done(r) ==
            IF r.err # NoErr THEN [bs |-> bs, n |-> r.n, data |-> r.data, err |-> r.err]
            ELSE IF bs.Index + r.n > bs.BufferLength
            THEN [bs |-> [bs EXCEPT !.Index = bs.BufferLength],
                  n |-> r.n, data |-> r.data, err |-> ErrEOFText]
            ELSE [bs |-> [bs EXCEPT !.Index = bs.Index + r.n],
                  n |-> r.n, data |-> r.data, err |-> NoErr]
    IN  Only({Done(r) : r \in {ReadAt(bs, n, bs.Index)}})

WriteAt(bs, p, offset) ==
    LET Copy(bytesToWrite) ==
            [bs |-> [bs EXCEPT !.Buffer = Slice(bs.Buffer, 0, offset)
                                           \o Slice(p, 0, bytesToWrite)
                                           \o Slice(bs.Buffer, offset + bytesToWrite,
                                                    bs.BufferLength)],
             n |-> bytesToWrite, err |-> NoErr]
    IN  IF Len(p) = 0 THEN [bs |-> bs, n |-> 0, err |-> ErrEmptyData]
        ELSE IF bs.BufferLength - offset <= 0 THEN [bs |-> bs, n |-> 0, err |-> NoErr]
        ELSE Copy(Min(bs.BufferLength - offset, Len(p)))

Write(bs, p) ==
    LET Done(r) ==
            IF r.err # NoErr THEN [bs |-> bs, n |-> r.n, err |-> r.err]
            ELSE [bs |-> [r.bs EXCEPT !.Index = Min(bs.Index + r.n, bs.BufferLength)],
                  n |-> r.n, err |-> NoErr]
    IN  Done(WriteAt(bs, p, bs.Index))

\* io.EOF, which ReadByte and WriteByte return: another error value than
\* the errors.New("EOF") of Read and Seek, with the same text
ErrIOEOF == "io.EOF"

\* ReadByte(): the stream, the octet and the error
ReadByte(bs) ==
    IF bs.Index >= bs.BufferLength THEN [bs |-> bs, b |-> 0, err |-> ErrIOEOF]
    ELSE [bs |-> [bs EXCEPT !.Index = bs.Index + 1], b |-> bs.Buffer[bs.Index + 1],
          err |-> NoErr]

\* WriteByte(value): the stream and the error
WriteByte(bs, value) ==
    IF bs.Index >= bs.BufferLength THEN [bs |-> bs, err |-> ErrIOEOF]
    ELSE [bs |-> [bs EXCEPT !.Buffer[bs.Index + 1] = value, !.Index = bs.Index + 1],
          err |-> NoErr]

\* Seek(offset, whence): the stream moved, the new Index and the error
Seek(bs, offset, whence) ==
    LET Moved(start, off) ==
            IF start + off < 0 THEN [bs |-> bs, n |-> 0, err |-> ErrRange]
            ELSE IF start + off >= bs.BufferLength
            THEN [bs |-> [bs EXCEPT !.Index = start + off], n |-> start + off,
                  err |-> ErrEOFText]
            ELSE [bs |-> [bs EXCEPT !.Index = start + off], n |-> start + off,
                  err |-> NoErr]
    IN  CASE whence = "SeekStart" -> Moved(0, offset)
          [] whence = "SeekEnd" -> Moved(bs.BufferLength, -offset)
          [] whence = "SeekCurrent" -> Moved(bs.Index, offset)
          [] OTHER -> [bs |-> bs, n |-> 0, err |-> "invalid whence value"]

\* ----------------------------------------------- encoding/binary on a stream

\* binary.Write(&bs, binary.BigEndian, v): Write's count is dropped
BinaryWrite(bs, bytes) ==
    LET Done(r) == [bs |-> r.bs, err |-> r.err] IN Done(Write(bs, bytes))

RECURSIVE ReadFull(_, _, _)
\* io.ReadFull, the loop of io.ReadAtLeast: membufio's "EOF" is not io.EOF,
\* so it is returned as it is
ReadFull(bs, need, got) ==
    LET Step(r) ==
            IF r.err # NoErr
            THEN [bs |-> r.bs, data |-> got \o r.data,
                  err |-> IF Len(got) + r.n >= need THEN NoErr ELSE r.err]
            ELSE ReadFull(r.bs, need, got \o r.data)
    IN  IF Len(got) >= need THEN [bs |-> bs, data |-> got, err |-> NoErr]
        ELSE Step(Read(bs, need - Len(got)))

\* binary.Read(&bs, binary.BigEndian, &data) for a value of `width` octets
BinaryRead(bs, width) == ReadFull(bs, width, <<>>)

\* ----------------------------------------------------------------- Segment

\* var seg Segment
ZeroSegment == [Type |-> DFUnknownType, Value |-> <<>>]

SegmentGetSize(seg) ==
    IF fixedSegmentSize(seg.Type) # 0 THEN fixedSegmentSize(seg.Type) + 1
    ELSE Len(seg.Value) + sizeSegmentSize(seg.Type) + 1

\* the payload length Segment.Read takes from the size field it has read
PayloadSize(sizeWriter) == sizeWriter[1] * 256 + sizeWriter[2]

\* an io.Reader that delivers the octets of p in two parts, the first of
\* `cut` octets: a Read returns what is asked for or what is left of the part
Conn(p, cut) == [Buffer |-> p, Index |-> 0, BufferLength |-> Len(p), Cut |-> cut]
ConnRead(c, n) ==
    LET Deliver(stop) ==
            [bs |-> [c EXCEPT !.Index = stop], n |-> stop - c.Index,
             data |-> Slice(c.Buffer, c.Index, stop), err |-> NoErr]
        PartEnd == IF c.Cut > c.Index THEN Min(c.Cut, c.BufferLength) ELSE c.BufferLength
    IN  IF n = 0 THEN [bs |-> c, n |-> 0, data |-> <<>>, err |-> NoErr]
        ELSE IF c.Index >= c.BufferLength
        THEN [bs |-> c, n |-> 0, data |-> <<>>, err |-> ErrIOEOF]
        ELSE Deliver(Min(c.Index + n, PartEnd))

\* r.Read(p) for an io.Reader r and a slice p of length n: the method of the
\* value behind the interface
ReaderRead(r, n) == IF "Cut" \in DOMAIN r THEN ConnRead(r, n) ELSE Read(r, n)

\* Segment.Read(r): the segment, the stream and the error after the call;
\* bs is the io.Reader r
SegmentRead(seg, bs) ==
    LET Payload(tag, bs2, payloadSize) ==
            LET Done(r3) ==
                    IF r3.err # NoErr
                    THEN [seg |-> [seg EXCEPT !.Type = tag], bs |-> r3.bs, err |-> r3.err]
                    ELSE IF r3.n # payloadSize
                    THEN [seg |-> [seg EXCEPT !.Type = tag], bs |-> r3.bs,
                          err |-> ErrSegmentSize]
                    ELSE [seg |-> [Type |-> tag, Value |-> r3.data], bs |-> r3.bs,
                          err |-> NoErr]
            IN  Only({Done(r3) : r3 \in {ReaderRead(bs2, payloadSize)}})
        Sized(tag, sizeSize, bs1) ==
            LET Done(r2) ==
                    IF r2.err # NoErr THEN [seg |-> seg, bs |-> r2.bs, err |-> r2.err]
                    ELSE IF r2.n # sizeSize THEN [seg |-> seg, bs |-> r2.bs, err |-> ErrIO]
                    ELSE Payload(tag, r2.bs, PayloadSize(r2.data))
            IN  Only({Done(r2) : r2 \in {ReaderRead(bs1, sizeSize)}})
        Tagged(r1) ==
            IF r1.err # NoErr THEN [seg |-> seg, bs |-> r1.bs, err |-> r1.err]
            ELSE IF r1.n # 1 THEN [seg |-> seg, bs |-> r1.bs, err |-> ErrIO]
            ELSE IF ~isTypeCodeValid(r1.data[1])
            THEN [seg |-> seg, bs |-> r1.bs, err |-> ErrInvalidSegment]
            ELSE IF sizeSegmentSize(r1.data[1]) # 0
            THEN Sized(r1.data[1], sizeSegmentSize(r1.data[1]), r1.bs)
            ELSE Payload(r1.data[1], r1.bs, fixedSegmentSize(r1.data[1]))
    IN  Only({Tagged(r1) : r1 \in {ReaderRead(bs, 1)}})

\* the size field WriteSegment builds in membufio.Make(sizeSize)
SizeField(sizeSize, payloadSize) ==
    IF sizeSize = 2 THEN BigEndian(NumOf(payloadSize % Limb), 2)
    ELSE BigEndian(NumOf(payloadSize), 8)

\* WriteSegment(w, fieldType, fieldValue): the stream and the error
WriteSegment(w, fieldType, fieldValue) ==
    LET Payload(bs2) ==
            LET Done(w3) ==
                    IF w3.err # NoErr THEN [bs |-> w3.bs, err |-> w3.err]
                    ELSE IF w3.n # Len(fieldValue)
                    THEN [bs |-> w3.bs, err |-> ErrNetworkError]
                    ELSE [bs |-> w3.bs, err |-> NoErr]
            IN  Done(Write(bs2, fieldValue))
        Sized(sizeSize, bs1) ==
            LET Done(w2) ==
                    IF w2.err # NoErr THEN [bs |-> w2.bs, err |-> w2.err]
                    ELSE IF w2.n # 2 THEN [bs |-> w2.bs, err |-> ErrIO]
                    ELSE Payload(w2.bs)
            IN  Done(Write(bs1, SizeField(sizeSize, Len(fieldValue))))
        Tagged(w1) ==
            IF w1.err # NoErr THEN [bs |-> w1.bs, err |-> w1.err]
            ELSE IF w1.n # 1 THEN [bs |-> w1.bs, err |-> ErrIO]
            ELSE IF sizeSegmentSize(fieldType) # 0
            THEN Sized(sizeSegmentSize(fieldType), w1.bs)
            ELSE Payload(w1.bs)
    IN  Tagged(Write(w, <<fieldType>>))

\* FlattenSegment(fieldType, fieldValue): the slice returned and the error;
\* the errors of the writes into bufio are dropped
FlattenSegment(fieldType, fieldValue) ==
    LET Payload(sized) == [data |-> Write(sized.bs, fieldValue).bs.Buffer, err |-> NoErr]
        Sized(sizeSize, tagged) ==
            IF sizeSize \in {2, 4, 8}
            THEN Payload(BinaryWrite(tagged.bs, SizeField(sizeSize, Len(fieldValue))))
            ELSE [data |-> <<>>, err |-> ErrSegmentSize]
    IN  IF Len(fieldValue) = 0 THEN [data |-> <<>>, err |-> ErrEmptyData]
        ELSE Sized(sizeSegmentSize(fieldType),
                   WriteByte(Make(Len(fieldValue) + sizeSegmentSize(fieldType) + 1),
                             fieldType))

\* Segment.Write(w)
SegmentWrite(seg, w) == WriteSegment(w, seg.Type, seg.Value)

\* int64(payloadSize) as the offset of a Seek; an offset of 2^30 or more in
\* either direction moves the Index of any buffer held here past its end or
\* before its start, as 2^30 itself does
Int64Of(v) ==
    LET Small(mag) == mag[1] = 0 /\ mag[2] = 0 /\ mag[3] < 16384
    IN  IF v.mag[1] >= 32768
        THEN IF Small(TwosComplement(v.mag))
             THEN -(TwosComplement(v.mag)[3] * Limb + TwosComplement(v.mag)[4])
             ELSE -1073741824
        ELSE IF Small(v.mag) THEN v.mag[3] * Limb + v.mag[4]
        ELSE 1073741824

\* one pass of the for loop of CountSegments: bs is the stream and out the
\* count so far; done says whether the pass left the loop
CountStep(bs, out) ==
    LET Return(bs1, err) == [bs |-> bs1, out |-> 0, err |-> err, done |-> TRUE]
        Skip(s) ==
            IF s.err # NoErr
            THEN IF s.err # ErrEOFText THEN Return(s.bs, s.err)
                 ELSE [bs |-> s.bs, out |-> out + 1, err |-> NoErr, done |-> TRUE]
            ELSE [bs |-> s.bs, out |-> out + 1, err |-> NoErr, done |-> IsEOF(s.bs)]
        Sized(bs1, payloadSize) ==
            IF payloadSize = NumOf(0) THEN Return(bs1, ErrInvalidSegment)
            ELSE Only({Skip(s) : s \in {Seek(bs1, Int64Of(payloadSize), "SeekCurrent")}})
        Field(size, width) ==
            IF size.err # NoErr THEN Return(size.bs, ErrInvalidSegment)
            ELSE Sized(size.bs, FromBigEndian(size.data, width, FALSE))
        Tagged(r) ==
            IF r.n # 1 THEN Return(r.bs, ErrInvalidSegment)
            ELSE IF ~isTypeCodeValid(r.data[1]) THEN Return(r.bs, ErrInvalidSegment)
            ELSE IF r.err # NoErr THEN Return(r.bs, r.err)
            ELSE IF sizeSegmentSize(r.data[1]) = 0
            THEN IF fixedSegmentSize(r.data[1]) = 0
                 THEN Return(r.bs, ErrInvalidSegment)
                 ELSE Sized(r.bs, NumOf(fixedSegmentSize(r.data[1])))
            ELSE IF sizeSegmentSize(r.data[1]) \in {2, 4, 8}
            THEN Only({Field(size, sizeSegmentSize(r.data[1])) :
                          size \in {BinaryRead(r.bs, sizeSegmentSize(r.data[1]))}})
            ELSE Return(r.bs, ErrInvalidSegment)
    IN  Only({Tagged(r1) : r1 \in {Read(bs, 1)}})

RECURSIVE CountLoop(_, _)
\* the for loop of CountSegments
CountLoop(bs, out) ==
    LET After(r) ==
            IF r.done THEN [n |-> r.out, err |-> r.err]
            ELSE CountLoop(r.bs, r.out)
    IN  Only({After(r) : r \in {CountStep(bs, out)}})

\* CountSegments(p): the number of segments in the buffer and the error
CountSegments(p) ==
    IF Len(p) < 4 THEN [n |-> 0, err |-> NoErr]
    ELSE CountLoop(New(p), 0)

\* ------------------------------------------------------------ typed setters

\* the buffer a setter writes into: seg.Value when its length already is
\* valueLen, make([]byte, valueLen) otherwise
SetterBuffer(seg, valueLen) ==
    IF Len(seg.Value) # valueLen THEN Zeros(valueLen) ELSE seg.Value

\* the body the multi-byte setters share: binary.Write of the value's octets
\* into a ByteSliceIO over the setter's buffer
SetFixed(seg, tag, valueLen, bytes) ==
    LET Done(w) == [seg |-> [Type |-> tag, Value |-> w.bs.Buffer], err |-> w.err]
    IN  Done(BinaryWrite(New(SetterBuffer(seg, valueLen)), bytes))

\* the body the one-byte setters share: seg.Value[0] = octet
SetByte(seg, tag, octet) ==
    [seg |-> [Type |-> tag, Value |-> [SetterBuffer(seg, 1) EXCEPT ![1] = octet]],
     err |-> NoErr]

SetDocStart(seg, version) == SetByte(seg, DFDocumentStart, version)
SetDocEnd(seg, segcount) == SetFixed(seg, DFDocumentEnd, 8, BigEndian(segcount, 8))
SetInt8(seg, value) == SetByte(seg, DFInt8Type, BigEndian(value, 1)[1])
SetUInt8(seg, value) == SetByte(seg, DFUInt8Type, BigEndian(value, 1)[1])
SetInt16(seg, value) == SetFixed(seg, DFInt16Type, 2, BigEndian(value, 2))
SetUInt16(seg, value) == SetFixed(seg, DFUInt16Type, 2, BigEndian(value, 2))
SetInt32(seg, value) == SetFixed(seg, DFInt32Type, 4, BigEndian(value, 4))
SetUInt32(seg, value) == SetFixed(seg, DFUInt32Type, 4, BigEndian(value, 4))
SetInt64(seg, value) == SetFixed(seg, DFInt64Type, 8, BigEndian(value, 8))
SetUInt64(seg, value) == SetFixed(seg, DFUInt64Type, 8, BigEndian(value, 8))
SetBool(seg, value) == SetByte(seg, DFBoolType, IF value THEN 1 ELSE 0)
\* a float is given by its IEEE 754 bit pattern, which is what binary.Write emits
SetFloat32(seg, bits) == SetFixed(seg, DFFloat32Type, 4, BigEndian(bits, 4))
SetFloat64(seg, bits) == SetFixed(seg, DFFloat64Type, 8, BigEndian(bits, 8))

\* copy(seg.Value, value) into a buffer of len(value) octets leaves value
SetString(seg, value) ==
    [seg |-> [Type |-> IF Len(value) > MaxRegular THEN DFHugeStringType ELSE DFStringType,
              Value |-> value],
     err |-> NoErr]

SetBinary(seg, value) ==
    [seg |-> [Type |-> IF Len(value) > MaxRegular THEN DFHugeBinaryType ELSE DFBinaryType,
              Value |-> value],
     err |-> NoErr]

\* the body SetMapIndex and SetListIndex share, for a container of n members
SetIndex(seg, n, regularTag, largeTag) ==
    IF n > MaxRegular
    THEN SetFixed(seg, largeTag, fixedSegmentSize(largeTag), BigEndian(NumOf(n), 8))
    ELSE SetFixed(seg, regularTag, fixedSegmentSize(regularTag),
                  BigEndian(NumOf(n % Limb), 2))

\* a SegmentMap is a function from keys to Segments, a SegmentList a sequence
SetMapIndex(seg, value) ==
    SetIndex(seg, Cardinality(DOMAIN value), DFMapType, DFLargeMapType)
SetListIndex(seg, value) == SetIndex(seg, Len(value), DFListType, DFLargeListType)

\* ---------------------------------------------------------- typed accessors

\* the body the multi-byte accessors share: binary.Read from a ByteSliceIO
\* over seg.Value
GetFixed(seg, width, signed) ==
    LET Done(r) ==
            IF r.err # NoErr THEN [val |-> NumOf(0), err |-> r.err]
            ELSE [val |-> FromBigEndian(r.data, width, signed), err |-> NoErr]
    IN  Done(BinaryRead(New(seg.Value), width))

GetDocEnd(seg) ==
    IF seg.Type # DFDocumentEnd THEN [val |-> NumOf(0), err |-> ErrTypeError]
    ELSE GetFixed(seg, 8, FALSE)

GetString(seg) ==
    IF seg.Type # DFStringType /\ seg.Type # DFHugeStringType
    THEN [val |-> <<>>, err |-> ErrTypeError]
    ELSE [val |-> seg.Value, err |-> NoErr]

GetMapIndex(seg) ==
    IF seg.Type = DFMapType THEN GetFixed(seg, 2, FALSE)
    ELSE IF seg.Type = DFLargeMapType THEN GetFixed(seg, 8, FALSE)
    ELSE [val |-> NumOf(0), err |-> ErrTypeError]

GetListIndex(seg) ==
    IF seg.Type = DFListType THEN GetFixed(seg, 2, FALSE)
    ELSE IF seg.Type = DFLargeListType THEN GetFixed(seg, 8, FALSE)
    ELSE [val |-> NumOf(0), err |-> ErrTypeError]

GetDocStart(seg) ==
    IF seg.Type # DFDocumentStart THEN [val |-> NumOf(0), err |-> ErrTypeError]
    ELSE IF Len(seg.Value) # 1 THEN [val |-> NumOf(0), err |-> ErrSize]
    ELSE [val |-> NumOf(seg.Value[1]), err |-> NoErr]

GetInt8(seg) ==
    IF seg.Type # DFInt8Type THEN [val |-> NumOf(0), err |-> ErrTypeError]
    ELSE IF Len(seg.Value) # 1 THEN [val |-> NumOf(0), err |-> ErrSize]
    ELSE [val |-> FromBigEndian(seg.Value, 1, TRUE), err |-> NoErr]

GetUInt8(seg) ==
    IF seg.Type # DFUInt8Type THEN [val |-> NumOf(0), err |-> ErrTypeError]
    ELSE IF Len(seg.Value) # 1 THEN [val |-> NumOf(0), err |-> ErrSize]
    ELSE [val |-> NumOf(seg.Value[1]), err |-> NoErr]

\* GetInt16 that takes the unsigned sibling for its own type
GetInt16Compatible(seg) ==
    IF seg.Type # DFInt16Type /\ seg.Type # DFUInt16Type
    THEN [val |-> NumOf(0), err |-> ErrTypeError]
    ELSE GetFixed(seg, 2, TRUE)

GetInt16(seg) ==
    IF seg.Type # DFInt16Type THEN [val |-> NumOf(0), err |-> ErrTypeError]
    ELSE GetFixed(seg, 2, TRUE)

GetUInt16(seg) ==
    IF seg.Type # DFUInt16Type THEN [val |-> NumOf(0), err |-> ErrTypeError]
    ELSE GetFixed(seg, 2, FALSE)

GetInt32(seg) ==
    IF seg.Type # DFInt32Type THEN [val |-> NumOf(0), err |-> ErrTypeError]
    ELSE GetFixed(seg, 4, TRUE)

GetUInt32(seg) ==
    IF seg.Type # DFUInt32Type THEN [val |-> NumOf(0), err |-> ErrTypeError]
    ELSE GetFixed(seg, 4, FALSE)

GetInt64(seg) ==
    IF seg.Type # DFInt64Type THEN [val |-> NumOf(0), err |-> ErrTypeError]
    ELSE GetFixed(seg, 8, TRUE)

GetUInt64(seg) ==
    IF seg.Type # DFUInt64Type THEN [val |-> NumOf(0), err |-> ErrTypeError]
    ELSE GetFixed(seg, 8, FALSE)

GetBool(seg) ==
    IF seg.Type # DFBoolType THEN [val |-> FALSE, err |-> ErrTypeError]
    ELSE IF Len(seg.Value) # 1 THEN [val |-> FALSE, err |-> ErrSize]
    ELSE [val |-> seg.Value[1] # 0, err |-> NoErr]

\* a float is held as the bits of its IEEE 754 form
GetFloat32(seg) ==
    IF seg.Type # DFFloat32Type THEN [val |-> NumOf(0), err |-> ErrTypeError]
    ELSE GetFixed(seg, 4, FALSE)

GetFloat64(seg) ==
    IF seg.Type # DFFloat64Type THEN [val |-> NumOf(0), err |-> ErrTypeError]
    ELSE GetFixed(seg, 8, FALSE)

GetBinary(seg) ==
    IF seg.Type # DFBinaryType /\ seg.Type # DFHugeBinaryType
    THEN [val |-> <<>>, err |-> ErrTypeError]
    ELSE [val |-> seg.Value, err |-> NoErr]

\* a uint64 as the bound of a loop; the loops end at the end of the stream
\* long before a count of 2^31 - 1
CountOf(v) ==
    IF v.mag[1] = 0 /\ v.mag[2] = 0 /\ v.mag[3] < 32768
    THEN v.mag[3] * Limb + v.mag[4]
    ELSE 2147483647

\* -------------------------------------------------------------- SegmentMap

\* sm[key] = value
MapPut(sm, key, value) ==
    [k \in DOMAIN sm \cup {key} |-> IF k = key THEN value ELSE sm[k]]

\* make(SegmentMap) is the function of no key
EmptyMap == [k \in {} |-> ZeroSegment]

\* the index segment SegmentMap.Write and SegmentList.Write build: a SetUInt64
\* or SetUInt16 segment whose Type is then overwritten
CountSegment(n, regularTag, largeTag) ==
    IF n > MaxRegular
    THEN [SetUInt64(ZeroSegment, NumOf(n)).seg EXCEPT !.Type = largeTag]
    ELSE [SetUInt16(ZeroSegment, NumOf(n % Limb)).seg EXCEPT !.Type = regularTag]

\* the test with binary keys let through
NeitherStringNorBinary(keySegment) ==
    keySegment.Type \notin {DFStringType, DFBinaryType}

\* the test SegmentMap.Read makes of a key segment it has read
InvalidKey(keySegment) == keySegment.Type # DFStringType

RECURSIVE ReadPairs(_, _, _, _)
\* the loop of SegmentMap.Read with `left` pairs still to read
ReadPairs(sm, bs, keySegment, left) ==
    LET Value(k) ==
            LET Put(v) ==
                    IF v.err # NoErr THEN [sm |-> sm, bs |-> v.bs, err |-> v.err]
                    ELSE ReadPairs(MapPut(sm, k.seg.Value, v.seg), v.bs, k.seg, left - 1)
            IN  Only({Put(v) : v \in {SegmentRead(ZeroSegment, k.bs)}})
        Key(k) ==
            IF k.err # NoErr THEN [sm |-> sm, bs |-> k.bs, err |-> k.err]
            ELSE IF InvalidKey(k.seg)
            THEN [sm |-> sm, bs |-> k.bs, err |-> ErrInvalidKey]
            ELSE Value(k)
    IN  IF left = 0 THEN [sm |-> sm, bs |-> bs, err |-> NoErr]
        ELSE Only({Key(k) : k \in {SegmentRead(keySegment, bs)}})

\* SegmentMap.Read(r): the map, the stream and the error after the call
SegmentMapRead(sm, bs) ==
    LET Counted(c, pairCount) ==
            IF pairCount.err # NoErr THEN [sm |-> sm, bs |-> c.bs, err |-> pairCount.err]
            ELSE ReadPairs(sm, c.bs, ZeroSegment, CountOf(pairCount.val))
        Index(c) ==
            IF c.err # NoErr THEN [sm |-> sm, bs |-> c.bs, err |-> c.err]
            ELSE Only({Counted(c, pairCount) : pairCount \in {GetMapIndex(c.seg)}})
    IN  Only({Index(c) : c \in {SegmentRead(ZeroSegment, bs)}})

RECURSIVE WritePairs(_, _, _, _)
\* the loop of SegmentMap.Write over the keys from order[i] on; Go leaves the
\* iteration order of a map unspecified, so the order is an input
WritePairs(sm, w, order, i) ==
    LET Value(k) ==
            LET Next(v) ==
                    IF v.err # NoErr THEN v ELSE WritePairs(sm, v.bs, order, i + 1)
            IN  IF k.err # NoErr THEN k ELSE Next(SegmentWrite(sm[order[i]], k.bs))
    IN  IF i > Len(order) THEN [bs |-> w, err |-> NoErr]
        ELSE Value(SegmentWrite(SetString(ZeroSegment, order[i]).seg, w))

\* SegmentMap.Write(w), ranging over the map in the given order
SegmentMapWrite(sm, w, order) ==
    LET Pairs(c) ==
            IF c.err # NoErr THEN c
            ELSE IF Cardinality(DOMAIN sm) = 0 THEN c
            ELSE WritePairs(sm, c.bs, order, 1)
    IN  Pairs(SegmentWrite(CountSegment(Cardinality(DOMAIN sm), DFMapType, DFLargeMapType),
                           w))

RECURSIVE SumPairs(_, _)
\* the sum of the loop of SegmentMap.GetSize over the keys left
SumPairs(sm, keys) ==
    LET Add(k) == 3 + Len(k) + SegmentGetSize(sm[k]) + SumPairs(sm, keys \ {k})
    IN  IF keys = {} THEN 0 ELSE Add(CHOOSE x \in keys : TRUE)

SegmentMapGetSize(sm) ==
    IF Cardinality(DOMAIN sm) = 0 THEN 3 ELSE SumPairs(sm, DOMAIN sm) + 3

RECURSIVE Orders(_)
\* the orders in which a range over the map can visit its keys
Orders(keys) ==
    IF keys = {} THEN {<<>>}
    ELSE UNION {{<<k>> \o rest : rest \in Orders(keys \ {k})} : k \in keys}

\* ------------------------------------------------------------- SegmentList

RECURSIVE SumItems(_, _)
\* the sum of the loop of SegmentList.GetSize over the items from sl[i] on
SumItems(sl, i) ==
    IF i > Len(sl) THEN 0 ELSE SegmentGetSize(sl[i]) + SumItems(sl, i + 1)

SegmentListGetSize(sl) ==
    IF Len(sl) = 0 THEN 3 ELSE SumItems(sl, 1) + 3

RECURSIVE ReadItems(_, _, _)
\* the loop of SegmentList.Read with `left` items still to read
ReadItems(sl, bs, left) ==
    LET Add(item) ==
            IF item.err # NoErr THEN [sl |-> sl, bs |-> item.bs, err |-> item.err]
            ELSE ReadItems(Append(sl, item.seg), item.bs, left - 1)
    IN  IF left = 0 THEN [sl |-> sl, bs |-> bs, err |-> NoErr]
        ELSE Add(SegmentRead(ZeroSegment, bs))

\* SegmentList.Read(p): the list, the stream over p and the error
SegmentListRead(sl, p) ==
    LET Counted(c, width) ==
            LET Items(count) ==
                    IF count.err # NoErr THEN [sl |-> sl, bs |-> c.bs, err |-> count.err]
                    ELSE ReadItems(sl, c.bs, CountOf(FromBigEndian(count.data, width, FALSE)))
            IN  Items(BinaryRead(New(c.seg.Value), width))
        Index(c) ==
            IF c.err # NoErr THEN [sl |-> sl, bs |-> c.bs, err |-> c.err]
            ELSE IF c.seg.Type = DFListType THEN Counted(c, 2)
            ELSE IF c.seg.Type = DFLargeListType THEN Counted(c, 8)
            ELSE [sl |-> sl, bs |-> c.bs, err |-> NoErr]
    IN  Index(SegmentRead(ZeroSegment, New(p)))

RECURSIVE WriteItems(_, _, _)
\* the loop of SegmentList.Write over the items from sl[i] on
WriteItems(sl, w, i) ==
    LET Next(r) == IF r.err # NoErr THEN r ELSE WriteItems(sl, r.bs, i + 1)
    IN  IF i > Len(sl) THEN [bs |-> w, err |-> NoErr]
        ELSE Next(SegmentWrite(sl[i], w))

\* SegmentList.Write(w)
SegmentListWrite(sl, w) ==
    LET Items(c) ==
            IF c.err # NoErr THEN c
            ELSE IF Len(sl) = 0 THEN c
            ELSE WriteItems(sl, c.bs, 1)
    IN  Items(SegmentWrite(CountSegment(Len(sl), DFListType, DFLargeListType), w))

\* ----------------------------------------------------------------- WireMsg

NewWireMsg(command) == [MsgCode |-> command, Attachments |-> EmptyMap]

\* the body the Attach methods share, r being the result of the setter on a
\* fresh Segment
AttachSegment(wm, name, r) ==
    IF r.err # NoErr THEN [wm |-> wm, err |-> r.err]
    ELSE [wm |-> [wm EXCEPT !.Attachments = MapPut(@, name, r.seg)], err |-> NoErr]

AttachInt8(wm, name, value) == AttachSegment(wm, name, SetInt8(ZeroSegment, value))
AttachUInt8(wm, name, value) == AttachSegment(wm, name, SetUInt8(ZeroSegment, value))
AttachInt16(wm, name, value) == AttachSegment(wm, name, SetInt16(ZeroSegment, value))
AttachUInt16(wm, name, value) == AttachSegment(wm, name, SetUInt16(ZeroSegment, value))
AttachInt32(wm, name, value) == AttachSegment(wm, name, SetInt32(ZeroSegment, value))
AttachUInt32(wm, name, value) == AttachSegment(wm, name, SetUInt32(ZeroSegment, value))
AttachInt64(wm, name, value) == AttachSegment(wm, name, SetInt64(ZeroSegment, value))
AttachUInt64(wm, name, value) == AttachSegment(wm, name, SetUInt64(ZeroSegment, value))
AttachString(wm, name, value) == AttachSegment(wm, name, SetString(ZeroSegment, value))
AttachBinary(wm, name, value) == AttachSegment(wm, name, SetBinary(ZeroSegment, value))

\* seg, ok := wm.Attachments[name], then the typed accessor of the segment
WireMsgGetInt8(wm, name) ==
    IF name \notin DOMAIN wm.Attachments THEN [val |-> NumOf(0), err |-> ErrNotFound]
    ELSE GetInt8(wm.Attachments[name])

WireMsgGetUInt8(wm, name) ==
    IF name \notin DOMAIN wm.Attachments THEN [val |-> NumOf(0), err |-> ErrNotFound]
    ELSE GetUInt8(wm.Attachments[name])

WireMsgGetInt16(wm, name) ==
    IF name \notin DOMAIN wm.Attachments THEN [val |-> NumOf(0), err |-> ErrNotFound]
    ELSE GetInt16(wm.Attachments[name])

WireMsgGetUInt16(wm, name) ==
    IF name \notin DOMAIN wm.Attachments THEN [val |-> NumOf(0), err |-> ErrNotFound]
    ELSE GetUInt16(wm.Attachments[name])

WireMsgGetInt32(wm, name) ==
    IF name \notin DOMAIN wm.Attachments THEN [val |-> NumOf(0), err |-> ErrNotFound]
    ELSE GetInt32(wm.Attachments[name])

WireMsgGetUInt32(wm, name) ==
    IF name \notin DOMAIN wm.Attachments THEN [val |-> NumOf(0), err |-> ErrNotFound]
    ELSE GetUInt32(wm.Attachments[name])

WireMsgGetInt64(wm, name) ==
    IF name \notin DOMAIN wm.Attachments THEN [val |-> NumOf(0), err |-> ErrNotFound]
    ELSE GetInt64(wm.Attachments[name])

WireMsgGetUInt64(wm, name) ==
    IF name \notin DOMAIN wm.Attachments THEN [val |-> NumOf(0), err |-> ErrNotFound]
    ELSE GetUInt64(wm.Attachments[name])

WireMsgGetString(wm, name) ==
    IF Len(name) = 0 \/ Cardinality(DOMAIN wm.Attachments) = 0
    THEN [val |-> <<>>, err |-> ErrEmptyData]
    ELSE IF name \notin DOMAIN wm.Attachments THEN [val |-> <<>>, err |-> ErrNotFound]
    ELSE GetString(wm.Attachments[name])

WireMsgGetBinary(wm, name) ==
    IF Len(name) = 0 \/ Cardinality(DOMAIN wm.Attachments) = 0
    THEN [val |-> <<>>, err |-> ErrEmptyData]
    ELSE IF name \notin DOMAIN wm.Attachments THEN [val |-> <<>>, err |-> ErrNotFound]
    ELSE GetBinary(wm.Attachments[name])

WireMsgGetSize(wm) ==
    2 + (IF Len(wm.MsgCode) < MaxRegular THEN 3 + Len(wm.MsgCode)
         ELSE 9 + Len(wm.MsgCode))
      + SegmentMapGetSize(wm.Attachments) + 9

\* the end-marker count of a message with n attachments
EndCount(n) == NumOf(n * 2 + 2)

\* WireMsg.Write(w), the attachments visited in the given order
WireMsgWrite(wm, w, order) ==
    LET End(m, docEnd) ==
            IF docEnd.err # NoErr THEN [bs |-> m.bs, err |-> docEnd.err]
            ELSE SegmentWrite(docEnd.seg, m.bs)
        Map(m) ==
            IF m.err # NoErr THEN m
            ELSE End(m, SetDocEnd(ZeroSegment, EndCount(Cardinality(DOMAIN wm.Attachments))))
        Code(c) ==
            IF c.err # NoErr THEN c ELSE Map(SegmentMapWrite(wm.Attachments, c.bs, order))
        Start(s) ==
            IF s.err # NoErr THEN s ELSE Code(WriteSegment(s.bs, DFStringType, wm.MsgCode))
    IN  Start(WriteSegment(w, DFDocumentStart, <<1>>))

\* WireMsg.Flatten(): the same steps on membufio.Make(wm.GetSize()), whose
\* whole Buffer is returned
Flatten(wm, order) ==
    LET Done(r) ==
            IF r.err # NoErr THEN [data |-> <<>>, err |-> r.err]
            ELSE [data |-> r.bs.Buffer, err |-> NoErr]
    IN  Done(WireMsgWrite(wm, Make(WireMsgGetSize(wm)), order))

\* the comparison with each attachment counted once
CountOnceMismatch(segCount, attachments) ==
    segCount # NumOf(Cardinality(DOMAIN attachments) + 2)

\* the comparison WireMsg.Read makes of the end-marker count
CountMismatch(segCount, attachments) ==
    segCount # EndCount(Cardinality(DOMAIN attachments))

\* WireMsg.Read(r): the message, the stream and the error after the call
\* the tests WireMsg.Read makes of the first segment and of the segment after
\* the attachment map
NotStartMarker(s) == s.Type # DFDocumentStart

\* the test of the last segment that lets a start marker through as well
NotEitherMarker(s) == s.Type # DFDocumentEnd /\ s.Type # DFDocumentStart

NotEndMarker(s) == s.Type # DFDocumentEnd

WireMsgRead(wm, bs) ==
    LET Check(read, s3, segCount) ==
            IF segCount.err # NoErr THEN [wm |-> read, bs |-> s3.bs, err |-> segCount.err]
            ELSE IF CountMismatch(segCount.val, read.Attachments)
            THEN [wm |-> read, bs |-> s3.bs, err |-> ErrSize]
            ELSE [wm |-> read, bs |-> s3.bs, err |-> NoErr]
        End(read, s3) ==
            IF s3.err # NoErr THEN [wm |-> read, bs |-> s3.bs, err |-> s3.err]
            ELSE IF NotEndMarker(s3.seg)
            THEN [wm |-> read, bs |-> s3.bs, err |-> ErrInvalidMsg]
            ELSE Check(read, s3, GetDocEnd(s3.seg))
        Map(s2, m) ==
            IF m.err # NoErr
            THEN [wm |-> [MsgCode |-> GetString(s2.seg).val, Attachments |-> m.sm],
                  bs |-> m.bs, err |-> m.err]
            ELSE End([MsgCode |-> GetString(s2.seg).val, Attachments |-> m.sm],
                     SegmentRead(s2.seg, m.bs))
        Code(s2) ==
            IF s2.err # NoErr THEN [wm |-> wm, bs |-> s2.bs, err |-> s2.err]
            ELSE IF s2.seg.Type # DFStringType
            THEN [wm |-> wm, bs |-> s2.bs, err |-> ErrTypeError]
            ELSE Map(s2, SegmentMapRead(EmptyMap, s2.bs))
        Start(s1) ==
            IF s1.err # NoErr THEN [wm |-> wm, bs |-> s1.bs, err |-> s1.err]
            ELSE IF NotStartMarker(s1.seg)
            THEN [wm |-> wm, bs |-> s1.bs, err |-> ErrInvalidMsg]
            ELSE Code(SegmentRead(s1.seg, s1.bs))
    IN  Start(SegmentRead(ZeroSegment, bs))

\* WireMsg.Unflatten(data)
Unflatten(wm, data) == WireMsgRead(wm, New(data))

\* ------------------------------------------------------------ test values

\* the extreme values of the Go integer types of `width` octets
MaxUnsigned(width) ==
    [neg |-> FALSE,
     mag |-> [i \in 1..4 |-> IF 2 * (4 - i) >= width THEN 0
                             ELSE IF width = 1 THEN 255 ELSE Limb - 1]]
MaxSigned(width) ==
    [neg |-> FALSE,
     mag |-> [i \in 1..4 |-> IF 2 * (4 - i) >= width THEN 0
                             ELSE IF width = 1 THEN 127
                             ELSE IF 2 * (5 - i) = width THEN 32767 ELSE Limb - 1]]
MinSigned(width) ==
    [neg |-> TRUE,
     mag |-> [i \in 1..4 |-> IF width = 1 THEN (IF i = 4 THEN 128 ELSE 0)
                             ELSE IF 2 * (5 - i) = width THEN 32768 ELSE 0]]

SignedValues(width) == {NumOf(0), NumOf(42), NegOf(1), MinSigned(width), MaxSigned(width)}
UnsignedValues(width) == {NumOf(0), NumOf(42), MaxUnsigned(width)}

\* "TestMsg", "testString", "testInt", "abcdef" as octets
TestMsg == <<84, 101, 115, 116, 77, 115, 103>>
TestString == <<116, 101, 115, 116, 83, 116, 114, 105, 110, 103>>
TestInt == <<116, 101, 115, 116, 73, 110, 116>>
Abcdef == <<97, 98, 99, 100, 101, 102>>

\* ================================================================== state

VARIABLES
    pc,      \* where the run is: which operation comes next
    steps,   \* the number of Attach, setter or container calls made so far
    wm,      \* the WireMsg being built and written
    um,      \* the WireMsg that Unflatten fills
    last,    \* the last Attach call on wm and the last getter call after it
    seg,     \* the Segment the setters act on
    rseg,    \* the Segment that Segment.Read fills
    sl,      \* the SegmentList being written
    rsl,     \* the SegmentList that SegmentList.Read fills
    sm,      \* the SegmentMap being written
    rsm,     \* the SegmentMap that SegmentMap.Read fills
    peer,    \* the encoded segments a remote peer has put together
    buf,     \* a byte slice: what was written, or what the peer sent
    wire,    \* the ByteSliceIO written to or read from
    got,     \* the value the last accessor returned
    count,   \* len() of the container last given to an index setter
    werr,    \* the error of the last building or writing operation
    rerr,    \* the error of the last reading operation
    delta,   \* what was added to the end-marker count of buf
    shared   \* the attachments whose Value is the array that seg.Value is

vars == <<pc, steps, wm, um, last, seg, rseg, sl, rsl, sm, rsm, peer, buf, wire,
          got, count, werr, rerr, delta, shared>>
msgVars == <<wm, um, last>>
segVars == <<seg, rseg>>
contVars == <<sl, rsl, sm, rsm>>

\* ------------------------------------------------------------------ bounds

\* the number of Attach calls made on one message
MaxAttach == 2
\* the number of setter calls made on one segment
MaxSets == 2
\* the number of members put into one container, one by one
MaxItems == 2
\* the number of key/value pairs a peer puts on the wire
MaxPairs == 2
\* the room a caller's buffer has beyond GetSize()
Spare == 16
\* the pairs of a message a peer sends
MaxMsgPairs == 1

\* no Attach call and no getter call made yet
NoCall ==
    [kind |-> "", name |-> <<>>, value |-> NumOf(0), before |-> EmptyMap,
     getter |-> "", asked |-> <<>>]

\* every variable at its zero value, the run at `at`
Start(at) ==
    /\ pc = at /\ steps = 0
    /\ um = NewWireMsg(<<>>) /\ last = NoCall
    /\ seg = ZeroSegment /\ rseg = ZeroSegment
    /\ sl = <<>> /\ rsl = <<>> /\ sm = EmptyMap /\ rsm = EmptyMap
    /\ peer = <<>> /\ buf = <<>> /\ wire = New(<<>>)
    /\ got = NumOf(0) /\ count = 0
    /\ werr = NoErr /\ rerr = NoErr /\ delta = 0 /\ shared = {}

\* the octets written so far to a stream that started at Index 0
Written(bs) == Slice(bs.Buffer, 0, bs.Index)

\* ------------------------------------------------- the WireMsg operations

Names == {TestString, TestInt}
ShortCodes == {<<>>, TestMsg}
LongCodes == {Fill(MaxRegular - 1, 65), Fill(MaxRegular, 65), Fill(MaxRegular + 1, 65)}
Texts == {<<>>, Abcdef}

\* a call of an Attach function; a run of Attach and getter calls ("attach")
\* keeps the call in `last`
Attached(kind, n, v, r) ==
    /\ pc \in {"build", "attach"} /\ steps < MaxAttach
    /\ steps' = steps + 1
    /\ wm' = r.wm /\ werr' = r.err
    /\ last' = IF pc = "attach"
               THEN [kind |-> kind, name |-> n, value |-> v, before |-> wm.Attachments,
                     getter |-> "", asked |-> <<>>]
               ELSE last
    /\ UNCHANGED <<pc, um, peer, buf, wire, got, count, rerr, delta, shared, segVars, contVars>>

DoAttachInt8 == \E n \in Names, v \in {NegOf(1)} : Attached("Int8", n, v, AttachInt8(wm, n, v))
DoAttachUInt8 == \E n \in Names, v \in {MaxUnsigned(1)} : Attached("UInt8", n, v, AttachUInt8(wm, n, v))
DoAttachInt16 == \E n \in Names, v \in {MinSigned(2)} : Attached("Int16", n, v, AttachInt16(wm, n, v))
DoAttachUInt16 == \E n \in Names, v \in {MaxUnsigned(2)} : Attached("UInt16", n, v, AttachUInt16(wm, n, v))
DoAttachInt32 == \E n \in Names, v \in {MaxSigned(4)} : Attached("Int32", n, v, AttachInt32(wm, n, v))
DoAttachUInt32 == \E n \in Names, v \in {MaxUnsigned(4)} : Attached("UInt32", n, v, AttachUInt32(wm, n, v))
DoAttachInt64 == \E n \in Names, v \in {NumOf(42)} : Attached("Int64", n, v, AttachInt64(wm, n, v))
DoAttachUInt64 == \E n \in Names, v \in {MaxUnsigned(8)} : Attached("UInt64", n, v, AttachUInt64(wm, n, v))
DoAttachString == \E n \in Names, v \in Texts : Attached("String", n, v, AttachString(wm, n, v))
DoAttachBinary == \E n \in Names, v \in Texts : Attached("Binary", n, v, AttachBinary(wm, n, v))

\* p, err := wm.Flatten()
DoFlatten ==
    /\ pc = "build"
    /\ \E order \in Orders(DOMAIN wm.Attachments) :
          \E r \in {Flatten(wm, order)} : buf' = r.data /\ werr' = r.err
    /\ pc' = "flat"
    /\ UNCHANGED <<steps, wm, um, last, peer, wire, got, count, rerr, delta, shared, segVars, contVars>>

\* the end-marker count of a flattened message is changed
Deltas == {-2, -1, 1, 2}
DoCorrupt ==
    /\ pc = "flat" /\ werr = NoErr /\ delta = 0
    /\ \E d \in Deltas :
          /\ delta' = d
          /\ buf' = [buf EXCEPT ![Len(buf)] = @ + d]
    /\ UNCHANGED <<pc, steps, wm, um, last, peer, wire, got, count, werr, rerr, shared,
                   segVars, contVars>>

\* err := um.Unflatten(p) on the octets Flatten returned or a peer sent
DoUnflatten ==
    /\ pc \in {"flat", "msgwire"}
    /\ \E r \in {Unflatten(um, buf)} : um' = r.wm /\ wire' = r.bs /\ rerr' = r.err
    /\ pc' = "read"
    /\ UNCHANGED <<steps, wm, last, peer, buf, got, count, werr, delta, shared, segVars, contVars>>

\* err := wm.Write(&bs) on a buffer with room to spare
DoWrite ==
    /\ pc = "build"
    /\ \E order \in Orders(DOMAIN wm.Attachments) :
          \E r \in {WireMsgWrite(wm, Make(WireMsgGetSize(wm) + Spare), order)} :
             wire' = r.bs /\ werr' = r.err
    /\ pc' = "written"
    /\ UNCHANGED <<steps, wm, um, last, peer, buf, got, count, rerr, delta, shared, segVars, contVars>>

\* the Attach calls made with the empty name
DoAttachUnnamed ==
    \/ \E v \in {NegOf(1)} : Attached("Int8", <<>>, v, AttachInt8(wm, <<>>, v))
    \/ \E v \in {NumOf(42)} : Attached("Int64", <<>>, v, AttachInt64(wm, <<>>, v))
    \/ \E v \in Texts : Attached("String", <<>>, v, AttachString(wm, <<>>, v))
    \/ \E v \in Texts : Attached("Binary", <<>>, v, AttachBinary(wm, <<>>, v))

\* value, err := wm.Get...(n) on the message built so far
MsgFetched(kind, n, r) ==
    /\ pc = "attach"
    /\ got' = r.val /\ rerr' = r.err
    /\ last' = [last EXCEPT !.getter = kind, !.asked = n]
    /\ pc' = "fetched"
    /\ UNCHANGED <<steps, wm, um, peer, buf, wire, count, werr, delta, shared, segVars, contVars>>

AskedNames == Names \cup {<<>>}
DoMsgGetInt8 == \E n \in AskedNames : MsgFetched("Int8", n, WireMsgGetInt8(wm, n))
DoMsgGetUInt8 == \E n \in AskedNames : MsgFetched("UInt8", n, WireMsgGetUInt8(wm, n))
DoMsgGetInt16 == \E n \in AskedNames : MsgFetched("Int16", n, WireMsgGetInt16(wm, n))
DoMsgGetUInt16 == \E n \in AskedNames : MsgFetched("UInt16", n, WireMsgGetUInt16(wm, n))
DoMsgGetInt32 == \E n \in AskedNames : MsgFetched("Int32", n, WireMsgGetInt32(wm, n))
DoMsgGetUInt32 == \E n \in AskedNames : MsgFetched("UInt32", n, WireMsgGetUInt32(wm, n))
DoMsgGetInt64 == \E n \in AskedNames : MsgFetched("Int64", n, WireMsgGetInt64(wm, n))
DoMsgGetUInt64 == \E n \in AskedNames : MsgFetched("UInt64", n, WireMsgGetUInt64(wm, n))
DoMsgGetString == \E n \in AskedNames : MsgFetched("String", n, WireMsgGetString(wm, n))
DoMsgGetBinary == \E n \in AskedNames : MsgFetched("Binary", n, WireMsgGetBinary(wm, n))

Init == Start("build") /\ wm \in {NewWireMsg(c) : c \in ShortCodes}

Next ==
    \/ DoAttachInt8 \/ DoAttachUInt8 \/ DoAttachInt16 \/ DoAttachUInt16
    \/ DoAttachInt32 \/ DoAttachUInt32 \/ DoAttachInt64 \/ DoAttachUInt64
    \/ DoAttachString \/ DoAttachBinary
    \/ DoFlatten \/ DoCorrupt \/ DoUnflatten \/ DoWrite

Spec == Init /\ [][Next]_vars

\* the Attach calls and the typed getters of a message
NextAttach ==
    \/ DoAttachInt8 \/ DoAttachUInt8 \/ DoAttachInt16 \/ DoAttachUInt16
    \/ DoAttachInt32 \/ DoAttachUInt32 \/ DoAttachInt64 \/ DoAttachUInt64
    \/ DoAttachString \/ DoAttachBinary \/ DoAttachUnnamed
    \/ DoMsgGetInt8 \/ DoMsgGetUInt8 \/ DoMsgGetInt16 \/ DoMsgGetUInt16
    \/ DoMsgGetInt32 \/ DoMsgGetUInt32 \/ DoMsgGetInt64 \/ DoMsgGetUInt64
    \/ DoMsgGetString \/ DoMsgGetBinary

InitAttach == Start("attach") /\ wm \in {NewWireMsg(c) : c \in ShortCodes}
SpecAttach == InitAttach /\ [][NextAttach]_vars

\* ---------------------------------------- a Segment copied out of a message

\* s := wm.Attachments[name]: the struct is copied, Type by value and Value
\* as a slice of the same array; um keeps the message as it is now
DoTake ==
    /\ pc = "attach"
    /\ \E name \in DOMAIN wm.Attachments :
          seg' = wm.Attachments[name] /\ shared' = {name}
    /\ um' = wm /\ count' = 0
    /\ pc' = "taken"
    /\ UNCHANGED <<steps, wm, last, rseg, peer, buf, wire, got, werr, rerr, delta, contVars>>

\* the attachments after a setter has written `value` into the array that the
\* attachments named in `names` have as their Value
Overwritten(attachments, names, value) ==
    [n \in DOMAIN attachments |->
        IF n \in names THEN [attachments[n] EXCEPT !.Value = value] ELSE attachments[n]]

\* a typed setter called on s: it writes into the array of s.Value when the
\* length is the one it needs, and into one it makes otherwise
SetTaken(r) ==
    /\ pc = "taken" /\ count < MaxSets
    /\ count' = count + 1
    /\ seg' = r.seg /\ werr' = r.err
    /\ IF Len(seg.Value) = Len(r.seg.Value)
       THEN /\ wm' = [wm EXCEPT !.Attachments = Overwritten(@, shared, r.seg.Value)]
            /\ shared' = shared
       ELSE wm' = wm /\ shared' = {}
    /\ UNCHANGED <<pc, steps, um, last, rseg, peer, buf, wire, got, rerr, delta, contVars>>

DoSetTaken ==
    \/ \E v \in {NumOf(5)} : SetTaken(SetInt8(seg, v))
    \/ \E v \in {NumOf(5)} : SetTaken(SetInt16(seg, v))
    \/ \E v \in BOOLEAN : SetTaken(SetBool(seg, v))
    \/ \E v \in Texts : SetTaken(SetString(seg, v))

NextAlias == DoAttachInt8 \/ DoAttachInt16 \/ DoAttachString \/ DoTake \/ DoSetTaken
SpecAlias == InitAttach /\ [][NextAlias]_vars

\* the same operations on messages whose command code is MaxRegular - 1,
\* MaxRegular or MaxRegular + 1 octets long
InitLong == Start("build") /\ wm \in {NewWireMsg(c) : c \in LongCodes}
SpecLong == InitLong /\ [][Next]_vars

\* ------------------------------------------------- the Segment operations

\* 1.5 as a float32 and as a float64
FloatBits32 == {NumOf(0), [neg |-> FALSE, mag |-> <<0, 0, 16320, 0>>]}
FloatBits64 == {NumOf(0), [neg |-> FALSE, mag |-> <<16376, 0, 0, 0>>]}
LongTexts == {Fill(MaxRegular, 97), Fill(MaxRegular + 1, 97)}

Set(r) ==
    /\ pc = "set" /\ steps < MaxSets
    /\ steps' = steps + 1
    /\ seg' = r.seg /\ werr' = r.err
    /\ UNCHANGED <<pc, rseg, peer, buf, wire, got, count, rerr, delta, shared, msgVars, contVars>>

DoSetInt8 == \E v \in SignedValues(1) : Set(SetInt8(seg, v))
DoSetUInt8 == \E v \in UnsignedValues(1) : Set(SetUInt8(seg, v))
DoSetInt16 == \E v \in SignedValues(2) : Set(SetInt16(seg, v))
DoSetUInt16 == \E v \in UnsignedValues(2) : Set(SetUInt16(seg, v))
DoSetInt32 == \E v \in SignedValues(4) : Set(SetInt32(seg, v))
DoSetUInt32 == \E v \in UnsignedValues(4) : Set(SetUInt32(seg, v))
DoSetInt64 == \E v \in SignedValues(8) : Set(SetInt64(seg, v))
DoSetUInt64 == \E v \in UnsignedValues(8) : Set(SetUInt64(seg, v))
DoSetBool == \E v \in BOOLEAN : Set(SetBool(seg, v))
DoSetFloat32 == \E v \in FloatBits32 : Set(SetFloat32(seg, v))
DoSetFloat64 == \E v \in FloatBits64 : Set(SetFloat64(seg, v))
DoSetString == \E v \in Texts \cup LongTexts : Set(SetString(seg, v))
DoSetBinary == \E v \in Texts : Set(SetBinary(seg, v))

\* err := seg.Write(&bs) on a buffer with room to spare
DoSegWrite ==
    /\ pc = "set"
    /\ \E r \in {SegmentWrite(seg, Make(SegmentGetSize(seg) + Spare))} :
          wire' = r.bs /\ werr' = r.err /\ buf' = Written(r.bs)
    /\ pc' = "segwritten"
    /\ UNCHANGED <<steps, seg, rseg, peer, got, count, rerr, delta, shared, msgVars, contVars>>

\* var rseg Segment; err := rseg.Read(&bs) on the octets written or sent
DoSegRead ==
    /\ pc \in {"segwritten", "wire"}
    /\ \E r \in {SegmentRead(ZeroSegment, New(buf))} :
          rseg' = r.seg /\ wire' = r.bs /\ rerr' = r.err
    /\ pc' = "segread"
    /\ UNCHANGED <<steps, seg, peer, buf, got, count, werr, delta, shared, msgVars, contVars>>

InitSegment == Start("set") /\ wm = NewWireMsg(<<>>)

\* the first part a connection delivers has at most MaxCut octets
MaxCut == 10

\* var rseg Segment; err := rseg.Read(conn) on the octets written, which the
\* connection delivers in two parts
DoSegReadSplit ==
    /\ pc = "segwritten" /\ werr = NoErr
    /\ \E cut \in 0..Min(Len(buf), MaxCut) :
          /\ \E r \in {SegmentRead(ZeroSegment, Conn(buf, cut))} :
                rseg' = r.seg /\ wire' = r.bs /\ rerr' = r.err
          /\ count' = cut
    /\ pc' = "segreadsplit"
    /\ UNCHANGED <<steps, seg, peer, buf, got, werr, delta, shared, msgVars, contVars>>

NextSegment ==
    \/ DoSetInt8 \/ DoSetUInt8 \/ DoSetInt16 \/ DoSetUInt16
    \/ DoSetInt32 \/ DoSetUInt32 \/ DoSetInt64 \/ DoSetUInt64
    \/ DoSetBool \/ DoSetFloat32 \/ DoSetFloat64 \/ DoSetString \/ DoSetBinary
    \/ DoSegWrite \/ DoSegRead

SpecSegment == InitSegment /\ [][NextSegment]_vars

NextSplit == NextSegment \/ DoSegReadSplit
SpecSplit == InitSegment /\ [][NextSplit]_vars

\* ------------------------------------------------ the container operations

\* the segments put into lists and maps
Items ==
    {SetInt8(ZeroSegment, NegOf(1)).seg, SetUInt16(ZeroSegment, MaxUnsigned(2)).seg,
     SetString(ZeroSegment, Abcdef).seg, SetString(ZeroSegment, <<>>).seg}

\* a list and a map of MaxRegular + 1 members
One == SetInt8(ZeroSegment, NumOf(1)).seg
BigList == [i \in 1..(MaxRegular + 1) |-> One]
BigMap == [k \in (0..255) \X (0..255) |-> One]

\* sl = append(sl, item)
DoListAppend ==
    /\ pc = "cont" /\ steps < MaxItems
    /\ \E item \in Items : sl' = Append(sl, item)
    /\ steps' = steps + 1
    /\ UNCHANGED <<pc, rsl, sm, rsm, peer, buf, wire, got, count, werr, rerr, delta, shared,
                   msgVars, segVars>>

\* sm[key] = item
DoMapPut ==
    /\ pc = "cont" /\ steps < MaxItems
    /\ \E key \in Names, item \in Items : sm' = MapPut(sm, key, item)
    /\ steps' = steps + 1
    /\ UNCHANGED <<pc, sl, rsl, rsm, peer, buf, wire, got, count, werr, rerr, delta, shared,
                   msgVars, segVars>>

Indexed(n, r, at) ==
    /\ pc = "cont"
    /\ seg' = r.seg /\ werr' = r.err /\ count' = n
    /\ pc' = at
    /\ UNCHANGED <<steps, rseg, peer, buf, wire, got, rerr, delta, shared, msgVars, contVars>>

\* err := seg.SetListIndex(l) for the list built or a list of MaxRegular + 1 items
DoSetListIndex ==
    \E big \in BOOLEAN :
        Indexed(Len(IF big THEN BigList ELSE sl),
                SetListIndex(seg, IF big THEN BigList ELSE sl), "listindex")

\* err := seg.SetMapIndex(m) for the map built or a map of MaxRegular + 1 keys
DoSetMapIndex ==
    \E big \in BOOLEAN :
        Indexed(Cardinality(DOMAIN (IF big THEN BigMap ELSE sm)),
                SetMapIndex(seg, IF big THEN BigMap ELSE sm), "mapindex")

Fetched(r, at) ==
    /\ pc \in {"listindex", "mapindex", "set"}
    /\ got' = r.val /\ rerr' = r.err
    /\ pc' = at
    /\ UNCHANGED <<steps, peer, buf, wire, count, werr, delta, shared, msgVars, segVars, contVars>>

\* n, err := seg.GetListIndex()
DoGetListIndex == Fetched(GetListIndex(seg), "gotlistindex")

\* n, err := seg.GetMapIndex()
DoGetMapIndex == Fetched(GetMapIndex(seg), "gotmapindex")

\* err := sl.Write(&bs) on a buffer with room to spare
DoListWrite ==
    /\ pc = "cont"
    /\ \E r \in {SegmentListWrite(sl, Make(SegmentListGetSize(sl) + Spare))} :
          wire' = r.bs /\ werr' = r.err /\ buf' = Written(r.bs)
    /\ pc' = "listwritten"
    /\ UNCHANGED <<steps, peer, got, count, rerr, delta, shared, msgVars, segVars, contVars>>

\* var rsl SegmentList; err := rsl.Read(p) on the octets written or sent
DoListRead ==
    /\ pc \in {"listwritten", "wire"}
    /\ \E r \in {SegmentListRead(<<>>, buf)} :
          rsl' = r.sl /\ wire' = r.bs /\ rerr' = r.err
    /\ pc' = "listread"
    /\ UNCHANGED <<steps, sl, sm, rsm, peer, buf, got, count, werr, delta, shared, msgVars, segVars>>

\* err := sm.Write(&bs) on a buffer with room to spare; the range over the
\* map takes any order
DoMapWrite ==
    /\ pc = "cont"
    /\ \E order \in Orders(DOMAIN sm) :
          \E r \in {SegmentMapWrite(sm, Make(SegmentMapGetSize(sm) + Spare), order)} :
             wire' = r.bs /\ werr' = r.err /\ buf' = Written(r.bs)
    /\ pc' = "mapwritten"
    /\ UNCHANGED <<steps, peer, got, count, rerr, delta, shared, msgVars, segVars, contVars>>

\* rsm := make(SegmentMap); err := rsm.Read(&bs) on the octets written or sent
DoMapRead ==
    /\ pc \in {"mapwritten", "wire"}
    /\ \E r \in {SegmentMapRead(EmptyMap, New(buf))} :
          rsm' = r.sm /\ wire' = r.bs /\ rerr' = r.err
    /\ pc' = "mapread"
    /\ UNCHANGED <<steps, sl, rsl, sm, peer, buf, got, count, werr, delta, shared, msgVars, segVars>>

\* n, err := CountSegments(p) on the octets a list or a map was written to
Counted(from, to) ==
    /\ pc = from
    /\ \E r \in {CountSegments(buf)} : got' = NumOf(r.n) /\ rerr' = r.err
    /\ pc' = to
    /\ UNCHANGED <<steps, peer, buf, wire, count, werr, delta, shared, msgVars, segVars, contVars>>

DoCountSegments ==
    \/ Counted("listwritten", "listcounted")
    \/ Counted("mapwritten", "mapcounted")

InitContainer == Start("cont") /\ wm = NewWireMsg(<<>>)

NextContainer ==
    \/ DoListAppend \/ DoMapPut
    \/ DoSetListIndex \/ DoSetMapIndex \/ DoGetListIndex \/ DoGetMapIndex
    \/ DoListWrite \/ DoListRead \/ DoMapWrite \/ DoMapRead \/ DoCountSegments

SpecContainer == InitContainer /\ [][NextContainer]_vars

\* ------------------------------------------------ the accessor operations

\* the Value of a Segment{Type: t, Value: v} whose fields the caller filled in
RawValues == {Slice(<<1, 2, 3, 4, 5, 6, 7, 8, 9>>, 0, n) : n \in {0, 1, 2, 3, 4, 8, 9}}

\* seg = Segment{Type: t, Value: v}
DoLiteral ==
    \E t \in (DFUnknownType + 1)..(DFUpperBound - 1), v \in RawValues :
        Set([seg |-> [Type |-> t, Value |-> v], err |-> NoErr])

DoGetDocStart == Fetched(GetDocStart(seg), "gotdocstart")
DoGetDocEnd == Fetched(GetDocEnd(seg), "gotdocend")
DoGetInt8 == Fetched(GetInt8(seg), "gotint8")
DoGetUInt8 == Fetched(GetUInt8(seg), "gotuint8")
DoGetInt16 == Fetched(GetInt16(seg), "gotint16")
DoGetUInt16 == Fetched(GetUInt16(seg), "gotuint16")
DoGetInt32 == Fetched(GetInt32(seg), "gotint32")
DoGetUInt32 == Fetched(GetUInt32(seg), "gotuint32")
DoGetInt64 == Fetched(GetInt64(seg), "gotint64")
DoGetUInt64 == Fetched(GetUInt64(seg), "gotuint64")
DoGetBool == Fetched(GetBool(seg), "gotbool")
DoGetFloat32 == Fetched(GetFloat32(seg), "gotfloat32")
DoGetFloat64 == Fetched(GetFloat64(seg), "gotfloat64")
DoGetString == Fetched(GetString(seg), "gotstring")
DoGetBinary == Fetched(GetBinary(seg), "gotbinary")

\* p, err := FlattenSegment(seg.Type, seg.Value)
DoFlattenSegment ==
    /\ pc = "set"
    /\ \E r \in {FlattenSegment(seg.Type, seg.Value)} : buf' = r.data /\ werr' = r.err
    /\ pc' = "segflat"
    /\ UNCHANGED <<steps, peer, wire, got, count, rerr, delta, shared, msgVars, segVars, contVars>>

InitAccess == Start("set") /\ wm = NewWireMsg(<<>>)

NextAccess ==
    \/ DoSetInt8 \/ DoSetUInt8 \/ DoSetInt16 \/ DoSetUInt16
    \/ DoSetInt32 \/ DoSetUInt32 \/ DoSetInt64 \/ DoSetUInt64
    \/ DoSetBool \/ DoSetFloat32 \/ DoSetFloat64 \/ DoSetString \/ DoSetBinary
    \/ DoLiteral
    \/ DoGetDocStart \/ DoGetDocEnd \/ DoGetInt8 \/ DoGetUInt8
    \/ DoGetInt16 \/ DoGetUInt16 \/ DoGetInt32 \/ DoGetUInt32
    \/ DoGetInt64 \/ DoGetUInt64 \/ DoGetBool \/ DoGetFloat32 \/ DoGetFloat64
    \/ DoGetString \/ DoGetBinary \/ DoGetMapIndex \/ DoGetListIndex
    \/ DoFlattenSegment

SpecAccess == InitAccess /\ [][NextAccess]_vars

\* -------------------------------------------------- octets sent by a peer

\* encoded segments as a peer puts them on the wire: plain strings "a" and
\* "b", a binary, an int8, a huge string of one octet, and ten octets that
\* start with the huge-string tag and the octets 0, 1
PeerKeys ==
    {<<DFStringType, 0, 1, 97>>, <<DFStringType, 0, 1, 98>>,
     <<DFBinaryType, 0, 1, 97>>, <<DFInt8Type, 5>>,
     <<DFHugeStringType, 0, 0, 0, 0, 0, 0, 0, 1, 97>>,
     <<DFHugeStringType, 0, 1, 0, 0, 0, 0, 0, 0, 97>>}
PeerValues ==
    {<<DFInt8Type, 5>>, <<DFStringType, 0, 3, 97, 98, 99>>,
     <<DFUInt16Type, 255, 255>>, <<DFListType, 0, 0>>}
PeerSegments ==
    PeerKeys \cup PeerValues
    \cup {<<DFHugeStringType, 0, 0, 0, 0, 0, 0, 0, 3, 97, 98, 99>>,
          <<DFHugeBinaryType, 0, 0, 0, 0, 0, 0, 0, 2, 0, 255>>,
          <<DFBinaryType, 0, 2, 0, 255>>}

RECURSIVE Concat(_)
\* the octets of a sequence of encoded segments, one after another
Concat(chunks) ==
    IF chunks = <<>> THEN <<>> ELSE Head(chunks) \o Concat(Tail(chunks))

\* every tag octet a peer can put first: the 21 tags, 0, the upper bound and
\* two octets beyond it; after it the octets a segment of that tag is made of
\* (one payload octet "a" where the tag takes a size field, and where the tag
\* is none)
PeerTags == DFUnknownType..(DFUpperBound + 1) \cup {255}
PeerBody(t) ==
    IF sizeSegmentSize(t) = 8 THEN <<0, 0, 0, 0, 0, 0, 0, 1, 97>>
    ELSE IF fixedSegmentSize(t) # 0 THEN Fill(fixedSegmentSize(t), 7)
    ELSE <<0, 1, 97>>
PeerTagged == {<<t>> \o PeerBody(t) : t \in PeerTags}

\* string and binary segments, regular and huge, whose size field is zero,
\* alone and with the octets of another segment behind them
PeerEmpty ==
    {<<t>> \o Zeros(sizeSegmentSize(t)) \o rest :
        t \in {DFStringType, DFBinaryType, DFHugeStringType, DFHugeBinaryType},
        rest \in {<<>>, <<DFInt8Type, 5>>}}

\* segments cut off after the tag and the size field: none or only some of
\* the payload octets are there
PeerWhole ==
    {<<DFStringType, 0, 3, 97, 98, 99>>, <<DFBinaryType, 0, 2, 0, 255>>,
     <<DFInt8Type, 5>>, <<DFUInt16Type, 255, 255>>, <<DFInt32Type, 1, 2, 3, 4>>,
     <<DFDocumentEnd, 0, 0, 0, 0, 0, 0, 0, 2>>, <<DFMapType, 0, 1>>,
     <<DFHugeStringType, 0, 0, 0, 0, 0, 0, 0, 3, 97, 98, 99>>}
PeerShort ==
    UNION {{Slice(raw, 0, n) : n \in (1 + sizeSegmentSize(raw[1]))..(Len(raw) - 1)} :
           raw \in PeerWhole}

PeerWires == PeerSegments \cup PeerTagged \cup PeerEmpty \cup PeerShort

\* the peer sends one segment
DoPeerSegment ==
    /\ pc = "peer" /\ peer = <<>>
    /\ \E raw \in PeerWires : peer' = <<raw>> /\ buf' = raw
    /\ pc' = "wire"
    /\ UNCHANGED <<steps, wire, got, count, werr, rerr, delta, shared, msgVars, segVars, contVars>>

\* the peer puts a key segment and a value segment together
DoPeerPair ==
    /\ pc = "peer" /\ Len(peer) < 2 * MaxPairs
    /\ \E k \in PeerKeys, v \in PeerValues : peer' = peer \o <<k, v>>
    /\ UNCHANGED <<pc, steps, buf, wire, got, count, werr, rerr, delta, shared,
                   msgVars, segVars, contVars>>

\* the peer sends a map index declaring n pairs and then its pairs
DoPeerMap ==
    /\ pc = "peer"
    /\ \E n \in 0..(Len(peer) \div 2) :
          /\ count' = n
          /\ buf' = <<DFMapType, 0, n>> \o Concat(peer)
    /\ pc' = "wire"
    /\ UNCHANGED <<steps, peer, wire, got, werr, rerr, delta, shared, msgVars, segVars, contVars>>

\* the peer sends a list index declaring n items and then its segments
DoPeerList ==
    /\ pc = "peer"
    /\ \E n \in 0..Len(peer) :
          /\ count' = n
          /\ buf' = <<DFListType, 0, n>> \o Concat(peer)
    /\ pc' = "wire"
    /\ UNCHANGED <<steps, peer, wire, got, werr, rerr, delta, shared, msgVars, segVars, contVars>>

\* what a peer puts where a message has its start marker, its command code
\* and, after a map of n pairs, its end marker
PeerFirsts ==
    {<<DFDocumentStart, 1>>, <<DFDocumentEnd, 0, 0, 0, 0, 0, 0, 0, 2>>,
     <<DFStringType, 0, 1, 97>>, <<DFUnknownType, 1>>}
PeerCodes == {<<DFStringType, 0, 1, 97>>, <<DFBinaryType, 0, 1, 97>>}
PeerLasts(n) ==
    {<<DFDocumentEnd, 0, 0, 0, 0, 0, 0, 0, 2 * n + 2>>,
     <<DFDocumentEnd, 0, 0, 0, 0, 0, 0, 0, 2 * n + 3>>,
     <<DFDocumentEnd, 0, 0, 0, 0, 0, 0, 0, 2 * n>>,
     <<DFUInt64Type, 0, 0, 0, 0, 0, 0, 0, 2 * n + 2>>,
     <<DFDocumentStart, 1>>, <<>>}

\* the peer sends a message: a first segment, a command code, a map index
\* declaring n pairs, its pairs and a last segment
MsgSent ==
    /\ pc = "peer"
    /\ \E first \in PeerFirsts, code \in PeerCodes, n \in 0..(Len(peer) \div 2) :
          \E final \in PeerLasts(n) :
             /\ count' = n
             /\ peer' = <<first, code>> \o peer \o <<final>>
             /\ buf' = first \o code \o <<DFMapType, 0, n>> \o Concat(peer) \o final
    /\ pc' = "msgwire"
    /\ UNCHANGED <<steps, wire, got, werr, rerr, delta, shared, msgVars, segVars, contVars>>

DoPeerMsg == Len(peer) <= 2 * MaxMsgPairs /\ MsgSent

InitPeer == Start("peer") /\ wm = NewWireMsg(<<>>)

NextPeer ==
    \/ DoPeerSegment \/ DoPeerPair \/ DoPeerMap \/ DoPeerList \/ DoPeerMsg
    \/ DoSegRead \/ DoMapRead \/ DoListRead \/ DoUnflatten

SpecPeer == InitPeer /\ [][NextPeer]_vars

\* ------------------------------------------- WireMsg.Read, statement by statement

\* the pairs of a message read step by step
MaxSent == 2

\* the pairs a peer puts into such a message: two values under one key, a
\* second key, and a key that is a binary segment
SentPairs ==
    {<<DFStringType, 0, 1, 97>>, <<DFStringType, 0, 1, 98>>, <<DFBinaryType, 0, 1, 97>>}
        \X {<<DFInt8Type, 1>>, <<DFStringType, 0, 1, 99>>}

DoSendPair ==
    /\ pc = "peer" /\ Len(peer) < 2 * MaxSent
    /\ \E pair \in SentPairs : peer' = peer \o pair
    /\ UNCHANGED <<pc, steps, buf, wire, got, count, werr, rerr, delta, shared, msgVars, segVars,
                   contVars>>

DoSendMsg == MsgSent

\* one action per step of um.Read(&bs) on the message a peer sent: s is rseg,
\* the stream is wire, and a return statement takes the run to "read"
Returned(err) == rerr' = err /\ pc' = "read"

\* var s Segment; s.Read(r); s.GetType() != DFDocumentStart
DoReadStart ==
    /\ pc = "msgwire"
    /\ \E r \in {SegmentRead(ZeroSegment, New(buf))} :
          /\ rseg' = r.seg /\ wire' = r.bs
          /\ IF r.err # NoErr THEN Returned(r.err)
             ELSE IF NotStartMarker(r.seg) THEN Returned(ErrInvalidMsg)
             ELSE rerr' = NoErr /\ pc' = "readcode"
    /\ steps' = steps + 1
    /\ UNCHANGED <<wm, um, last, seg, peer, buf, got, count, werr, delta, shared, contVars>>

\* the same step with a second try at a segment that did not decode
DoReadEndAgain ==
    /\ pc = "readend"
    /\ \E r \in {SegmentRead(rseg, wire)} :
          /\ rseg' = r.seg /\ wire' = r.bs
          /\ IF r.err # NoErr THEN rerr' = r.err /\ pc' = "readend"
             ELSE IF NotEndMarker(r.seg) THEN Returned(ErrInvalidMsg)
             ELSE rerr' = NoErr /\ pc' = "readcheck"
    /\ steps' = steps + 1
    /\ UNCHANGED <<wm, um, last, seg, peer, buf, got, count, werr, delta, shared, contVars>>

\* s.Read(r); s.GetType() != DFDocumentEnd
DoReadEnd ==
    /\ pc = "readend"
    /\ \E r \in {SegmentRead(rseg, wire)} :
          /\ rseg' = r.seg /\ wire' = r.bs
          /\ IF r.err # NoErr THEN Returned(r.err)
             ELSE IF NotEndMarker(r.seg) THEN Returned(ErrInvalidMsg)
             ELSE rerr' = NoErr /\ pc' = "readcheck"
    /\ steps' = steps + 1
    /\ UNCHANGED <<wm, um, last, seg, peer, buf, got, count, werr, delta, shared, contVars>>

\* s.Read(r); s.GetType() != DFStringType; wm.MsgCode, _ = s.GetString();
\* wm.Attachments = make(SegmentMap)
DoReadCode ==
    /\ pc = "readcode"
    /\ \E r \in {SegmentRead(rseg, wire)} :
          /\ rseg' = r.seg /\ wire' = r.bs
          /\ IF r.err # NoErr THEN Returned(r.err) /\ um' = um
             ELSE IF r.seg.Type # DFStringType THEN Returned(ErrTypeError) /\ um' = um
             ELSE /\ um' = [MsgCode |-> GetString(r.seg).val, Attachments |-> EmptyMap]
                  /\ rerr' = NoErr /\ pc' = "readmap"
    /\ steps' = steps + 1
    /\ UNCHANGED <<wm, last, seg, peer, buf, got, count, werr, delta, shared, contVars>>

\* wm.Attachments.Read(r)
DoReadMap ==
    /\ pc = "readmap"
    /\ \E m \in {SegmentMapRead(um.Attachments, wire)} :
          /\ um' = [um EXCEPT !.Attachments = m.sm] /\ wire' = m.bs
          /\ IF m.err # NoErr THEN Returned(m.err)
             ELSE rerr' = NoErr /\ pc' = "readend"
    /\ steps' = steps + 1
    /\ UNCHANGED <<wm, last, peer, buf, got, count, werr, delta, shared, segVars, contVars>>

\* segCount, err := s.GetDocEnd(); segCount != len(wm.Attachments)*2 + 2
DoReadCheck ==
    /\ pc = "readcheck"
    /\ \E segCount \in {GetDocEnd(rseg)} :
          IF segCount.err # NoErr THEN Returned(segCount.err)
          ELSE IF CountMismatch(segCount.val, um.Attachments) THEN Returned(ErrSize)
          ELSE Returned(NoErr)
    /\ steps' = steps + 1
    /\ UNCHANGED <<wm, um, last, peer, buf, wire, got, count, werr, delta, shared, segVars,
                   contVars>>

ReadStep == DoReadStart \/ DoReadCode \/ DoReadMap \/ DoReadEnd \/ DoReadCheck

NextRead == DoSendPair \/ DoSendMsg \/ ReadStep

\* a call of Read that has begun runs on: the code is sequential
SpecRead == InitPeer /\ [][NextRead]_vars /\ WF_vars(ReadStep)

\* ------------------------------------------- CountSegments, pass by pass

MaxCountPieces == 2
MaxCount == 4

\* encoded segments a buffer handed to CountSegments is made of: an int8, a
\* string, a huge string of one octet, huge strings that declare 2^64 - 9 and
\* 2^63 octets, a string that declares none, and an octet that is no tag
HugeBackward == <<DFHugeStringType, 255, 255, 255, 255, 255, 255, 255, 247>>
HugeFarBackward == <<DFHugeStringType, 128, 0, 0, 0, 0, 0, 0, 0>>
CountPieces ==
    {<<DFInt8Type, 1>>, <<DFStringType, 0, 1, 97>>,
     <<DFHugeStringType, 0, 0, 0, 0, 0, 0, 0, 1, 97>>,
     HugeBackward, HugeFarBackward, <<DFStringType, 0, 0>>, <<DFUnknownType>>}

\* the caller puts one more segment into the buffer p
DoCountPiece ==
    /\ pc = "countinput" /\ steps < MaxCountPieces
    /\ \E piece \in CountPieces : buf' = buf \o piece /\ peer' = Append(peer, piece)
    /\ steps' = steps + 1
    /\ UNCHANGED <<pc, wire, got, count, werr, rerr, delta, shared, msgVars, segVars, contVars>>

\* CountSegments(p) up to the loop: len(p) < 4, bs := membufio.New(p)
DoCountBegin ==
    /\ pc = "countinput" /\ steps > 0
    /\ IF Len(buf) < 4 THEN pc' = "counted" ELSE pc' = "counting"
    /\ wire' = New(buf) /\ count' = 0 /\ rerr' = NoErr
    /\ UNCHANGED <<steps, peer, buf, got, werr, delta, shared, msgVars, segVars, contVars>>

\* one pass of the loop; out is a Go int, of which the low part, out modulo
\* MaxCount, is kept: a call that returns has counted fewer segments
DoCountPass ==
    /\ pc = "counting"
    /\ \E r \in {CountStep(wire, count)} :
          /\ wire' = r.bs /\ count' = r.out % MaxCount /\ rerr' = r.err
          /\ pc' = IF r.done THEN "counted" ELSE "counting"
    /\ UNCHANGED <<steps, peer, buf, got, werr, delta, shared, msgVars, segVars, contVars>>

CountRun == DoCountBegin \/ DoCountPass

InitCount == Start("countinput") /\ wm = NewWireMsg(<<>>)
NextCount == DoCountPiece \/ CountRun

\* a call of CountSegments that has begun runs on: the code is sequential
SpecCount == InitCount /\ [][NextCount]_vars /\ WF_vars(DoCountPass)

\* ------------------------------------------------ the ByteSliceIO operations

MaxCalls == 3
\* the slices handed to Read and Write have up to MaxSlice octets, and the
\* offsets of ReadAt, WriteAt and Seek go MaxSlice past the ends of the buffer
MaxSlice == 2

\* bs := membufio.New(p) on a slice of a test
OpenBuffers == {<<>>, <<65, 66, 67>>}
DoOpen ==
    /\ pc = "io"
    /\ \E p \in OpenBuffers : wire' = New(p)
    /\ pc' = "Open"
    /\ UNCHANGED <<steps, peer, buf, got, count, werr, rerr, delta, shared, msgVars, segVars,
                   contVars>>

\* a call on bs that left the stream and the error of r; rerr is the error
\* and pc the name of the call
Called(call, r) ==
    /\ pc # "io" /\ steps < MaxCalls
    /\ steps' = steps + 1
    /\ wire' = r.bs /\ rerr' = r.err
    /\ pc' = call
    /\ UNCHANGED <<peer, buf, got, count, werr, delta, shared, msgVars, segVars, contVars>>

\* ReadAt and WriteAt with offsets from 0 on: a negative offset is an index
\* out of range at bs.Buffer[offset:...]
Offsets == 0..(wire.BufferLength + MaxSlice)
Slices == {Fill(n, 90) : n \in 0..MaxSlice}

DoRead == \E n \in 0..MaxSlice : Called("Read", Read(wire, n))
DoReadAt ==
    \E n \in 0..MaxSlice, offset \in Offsets :
       Called("ReadAt", [bs |-> wire, err |-> ReadAt(wire, n, offset).err])
DoReadByte == Called("ReadByte", ReadByte(wire))
DoIOWrite == \E p \in Slices : Called("Write", Write(wire, p))
DoWriteAt == \E p \in Slices, offset \in Offsets : Called("WriteAt", WriteAt(wire, p, offset))
DoWriteByte == Called("WriteByte", WriteByte(wire, 90))
DoSeek ==
    \E offset \in (-MaxSlice - wire.BufferLength)..(wire.BufferLength + MaxSlice),
       whence \in {"SeekStart", "SeekEnd", "SeekCurrent"} :
       Called("Seek", Seek(wire, offset, whence))

InitIO == Start("io") /\ wm = NewWireMsg(<<>>)
NextIO ==
    \/ DoOpen \/ DoRead \/ DoReadAt \/ DoReadByte
    \/ DoIOWrite \/ DoWriteAt \/ DoWriteByte \/ DoSeek
SpecIO == InitIO /\ [][NextIO]_vars

\* ================================================================ properties

\* the message of TestDocumentFlattenUnflattenSize and the octets the test
\* expects Flatten to return for it
TestMessage ==
    AttachInt64(AttachString(NewWireMsg(TestMsg), TestString, Abcdef).wm,
                TestInt, NumOf(42)).wm
TestFlat ==
    <<1, 1>> \o <<14, 0, 7>> \o TestMsg \o <<18, 0, 2>>
    \o <<14, 0, 10>> \o TestString \o <<14, 0, 6>> \o Abcdef
    \o <<14, 0, 7>> \o TestInt \o <<9, 0, 0, 0, 0, 0, 0, 0, 42>>
    \o <<2, 0, 0, 0, 0, 0, 0, 0, 6>>

\* C1: for every message built with the Attach operations, whatever its
\* command code and its values, Flatten succeeds, Unflatten of the octets
\* Flatten returned succeeds, and the message read has the same command code
\* and the same segments under the same names.
FlattenUnflattenRoundTrip ==
    (pc = "read" /\ delta = 0) => (werr = NoErr /\ rerr = NoErr /\ um = wm)

\* C2: reading a flattened message whose end-marker count was changed, by
\* one or by two either way, fails with ErrSize, and reading it with the
\* count unchanged succeeds.
EndCountChecked ==
    (pc = "read" /\ werr = NoErr) => rerr = (IF delta # 0 THEN ErrSize ELSE NoErr)

\* a message with two attachments whose end-marker count was raised by one
\* has been read and refused with ErrSize
EndCountRaised ==
    /\ pc = "read" /\ werr = NoErr /\ delta = 1
    /\ Cardinality(DOMAIN wm.Attachments) = 2
    /\ rerr = ErrSize

\* C3: every Flatten of the message with code "TestMsg", testString =
\* "abcdef" and testInt = int64 42 succeeds and returns the 65 octets the
\* test lists, with testString before testInt.
FlattenFixedBytes ==
    (pc = "flat" /\ delta = 0 /\ wm = TestMessage) => (werr = NoErr /\ buf = TestFlat)

\* C4: for every segment a typed setter built, Segment.Write succeeds,
\* Segment.Read of the octets written succeeds, and the segment read has the
\* same tag and the same value.
SegmentRoundTrip ==
    (pc = "segread" /\ steps > 0 /\ peer = <<>>)
        => (werr = NoErr /\ rerr = NoErr /\ rseg = seg)

\* C9: for every segment a typed setter built, the number of octets
\* Segment.Write puts on the stream is Segment.GetSize().
SegmentWriteSize ==
    (pc = "segwritten" /\ steps > 0) => wire.Index = SegmentGetSize(seg)

\* the 8-octet size field at the head of the octets the peer sent
PeerSizeField == FromBigEndian(Slice(buf, 1, 1 + sizeSegmentSize(buf[1])),
                               sizeSegmentSize(buf[1]), FALSE)

\* the peer sent one string or binary segment, regular or huge, whose size
\* field holds the number of payload octets that follow it
PeerSentVariable ==
    /\ Len(peer) = 1 /\ buf = peer[1]
    /\ sizeSegmentSize(buf[1]) # 0
    /\ PeerSizeField = NumOf(Len(buf) - 1 - sizeSegmentSize(buf[1]))

\* C5: Segment.Read of a string or binary segment, regular or huge, takes
\* the payload length from the whole size field, 2 or 8 octets, and consumes
\* 1 + the field's width + that length octets of the stream.
SizeFieldWhole ==
    (pc = "segread" /\ PeerSentVariable)
        => /\ rerr = NoErr
           /\ NumOf(Len(rseg.Value)) = PeerSizeField
           /\ wire.Index = 1 + sizeSegmentSize(buf[1]) + Len(rseg.Value)

\* C6: GetListIndex of the segment SetListIndex built for a list, and
\* GetMapIndex of the segment SetMapIndex built for a map, return the number
\* of members, for at most MaxRegular members and for more.
IndexRoundTrip ==
    /\ (pc = "gotlistindex" /\ seg.Type \in {DFListType, DFLargeListType})
          => (werr = NoErr /\ rerr = NoErr /\ got = NumOf(count))
    /\ (pc = "gotmapindex" /\ seg.Type \in {DFMapType, DFLargeMapType})
          => (werr = NoErr /\ rerr = NoErr /\ got = NumOf(count))

\* C7: SegmentList.Write succeeds and SegmentList.Read of the octets written,
\* into an empty list, yields the same segments in the same order; the same
\* for SegmentMap.Write and SegmentMap.Read and the same map.
ContainerRoundTrip ==
    /\ pc = "listread" => (werr = NoErr /\ rerr = NoErr /\ rsl = sl)
    /\ pc = "mapread" => (werr = NoErr /\ rerr = NoErr /\ rsm = sm)

\* C8: the number of octets WireMsg.Write puts on the stream is GetSize(),
\* which is the length of the slice Flatten returns, for command codes
\* shorter than, as long as and longer than MaxRegular octets.
WriteSizeIsGetSize ==
    /\ (pc = "written" /\ werr = NoErr) => wire.Index = WireMsgGetSize(wm)
    /\ (pc = "flat" /\ werr = NoErr) => Len(buf) = WireMsgGetSize(wm)

\* the tag of the i-th key the peer put on the wire
PeerKeyTag(i) == peer[2 * i - 1][1]

\* Segment.Read decodes each of the first n encoded segments of the peer
PeerDecodes(n) ==
    \A j \in 1..n : SegmentRead(ZeroSegment, New(peer[j])).err = NoErr

\* C10: SegmentMap.Read returns ErrInvalidKey when, among the pairs the
\* index declares, a key segment that Segment.Read decodes has a tag other
\* than the plain string tag, whichever pair it is of.
NonStringKeyRefused ==
    (pc = "mapread" /\ buf[1] = DFMapType
       /\ \E i \in 1..count : PeerKeyTag(i) # DFStringType /\ PeerDecodes(2 * i - 1))
        => rerr = ErrInvalidKey

\* a map of two pairs whose second key is a binary segment has been read and
\* refused with ErrInvalidKey
SecondKeyRefused ==
    /\ pc = "mapread" /\ buf[1] = DFMapType /\ count = 2
    /\ PeerKeyTag(1) = DFStringType /\ PeerKeyTag(2) = DFBinaryType
    /\ rerr = ErrInvalidKey


\* ------------------------------------------------------- typed accessors

\* the one tag each accessor is named after, by the state its call leaves
AccessorTag ==
    [gotdocstart |-> DFDocumentStart, gotdocend |-> DFDocumentEnd,
     gotint8 |-> DFInt8Type, gotuint8 |-> DFUInt8Type,
     gotint16 |-> DFInt16Type, gotuint16 |-> DFUInt16Type,
     gotint32 |-> DFInt32Type, gotuint32 |-> DFUInt32Type,
     gotint64 |-> DFInt64Type, gotuint64 |-> DFUInt64Type,
     gotbool |-> DFBoolType, gotfloat32 |-> DFFloat32Type,
     gotfloat64 |-> DFFloat64Type, gotstring |-> DFStringType,
     gotbinary |-> DFBinaryType, gotmapindex |-> DFMapType,
     gotlistindex |-> DFListType]

\* the tags the setter of the same type produces: the regular one and, for the
\* four types with two size classes, the huge or large one
SetterTags(a) ==
    {AccessorTag[a]} \cup
    (CASE a = "gotstring" -> {DFHugeStringType}
       [] a = "gotbinary" -> {DFHugeBinaryType}
       [] a = "gotmapindex" -> {DFLargeMapType}
       [] a = "gotlistindex" -> {DFLargeListType}
       [] OTHER -> {})

\* what an accessor returns beside an error: 0, false, "" or nil
NoValue(a) ==
    IF a = "gotbool" THEN got = FALSE
    ELSE IF a \in {"gotstring", "gotbinary"} THEN got = <<>>
    ELSE got = NumOf(0)

\* C11 as stated: an accessor called on a segment whose tag is not the one tag
\* the accessor is named after fails with ErrTypeError and returns no value
TypeMismatchExact ==
    \A a \in DOMAIN AccessorTag :
        pc = a /\ seg.Type # AccessorTag[a] => rerr = ErrTypeError /\ NoValue(a)

\* C11 amended: an accessor called on a segment whose tag is none of the tags
\* the setter of its type produces fails with ErrTypeError and returns no value
TypeMismatchFails ==
    \A a \in DOMAIN AccessorTag :
        pc = a /\ seg.Type \notin SetterTags(a) => rerr = ErrTypeError /\ NoValue(a)

\* GetInt16 was called on the segment SetUInt16 built and refused it
SignedOnUnsigned ==
    /\ pc = "gotint16" /\ seg = SetUInt16(ZeroSegment, NumOf(42)).seg
    /\ rerr = ErrTypeError /\ got = NumOf(0)


\* the accessors of the fixed-width types other than the floats
ScalarAccessors ==
    {"gotdocstart", "gotdocend", "gotint8", "gotuint8", "gotbool", "gotint16",
     "gotuint16", "gotint32", "gotuint32", "gotint64", "gotuint64"}

\* C12: a scalar accessor called on a segment of its own tag whose Value is
\* shorter or longer than the width of the tag returns an error and no number
WrongLengthFails ==
    \A a \in ScalarAccessors :
        pc = a /\ seg.Type = AccessorTag[a]
             /\ Len(seg.Value) # fixedSegmentSize(seg.Type)
        => rerr # NoErr /\ NoValue(a)


\* -------------------------------------------------- Segment.Read refusals

\* the peer sent one run of octets and Segment.Read was called on it
PeerSegmentRead == pc = "segread" /\ Len(peer) = 1 /\ buf = peer[1]

\* C13: Segment.Read returns ErrInvalidSegment when the tag octet is 0 or is
\* the upper bound of the tag space or beyond it, and takes each tag from 1 to
\* 21: the error is another one or none, and the segment read carries the tag
TagRangeChecked ==
    PeerSegmentRead =>
        IF buf[1] = DFUnknownType \/ buf[1] >= DFUpperBound
        THEN rerr = ErrInvalidSegment
        ELSE rerr # ErrInvalidSegment /\ rseg.Type = buf[1]

\* a segment whose tag octet is the upper bound was read and refused
UpperBoundRefused ==
    PeerSegmentRead /\ buf[1] = DFUpperBound /\ rerr = ErrInvalidSegment

\* C14: Segment.Read of a string or binary segment, regular or huge, whose
\* size field is zero returns ErrInvalidSegment
ZeroLengthRefused ==
    (PeerSegmentRead /\ sizeSegmentSize(buf[1]) # 0 /\ PeerSizeField = NumOf(0))
        => rerr = ErrInvalidSegment

\* a 64-bit count is more than a small number n
Exceeds(num, n) ==
    num.mag[1] # 0 \/ num.mag[2] # 0 \/ num.mag[3] # 0 \/ num.mag[4] > n

\* the number of payload octets the segment sent declares: the value of its
\* size field or, without one, the width of its tag
PeerDeclared ==
    IF sizeSegmentSize(buf[1]) # 0 THEN PeerSizeField
    ELSE NumOf(fixedSegmentSize(buf[1]))

\* C15: Segment.Read returns an error when the octets end after the tag and
\* the size field but before the declared number of payload octets
ShortPayloadRefused ==
    (PeerSegmentRead /\ isTypeCodeValid(buf[1])
       /\ Len(buf) >= 1 + sizeSegmentSize(buf[1])
       /\ Exceeds(PeerDeclared, Len(buf) - 1 - sizeSegmentSize(buf[1])))
        => rerr # NoErr

\* the same for the tags other than the two huge ones
ShortRegularRefused ==
    buf # <<>> /\ buf[1] \notin {DFHugeStringType, DFHugeBinaryType} => ShortPayloadRefused


\* ---------------------------------------------------------- CountSegments

\* C16: CountSegments of the octets a list was written to, which are its
\* index segment and its items one after another, returns the number of those
\* segments; of the octets a map of N entries was written to, 1 + 2N
CountIsSegments ==
    /\ (pc = "listcounted" /\ werr = NoErr)
        => rerr = NoErr /\ got = NumOf(1 + Len(sl))
    /\ (pc = "mapcounted" /\ werr = NoErr)
        => rerr = NoErr /\ got = NumOf(1 + 2 * Cardinality(DOMAIN sm))

\* the same for what was written in four octets or more
CountIsSegmentsFromFour == Len(buf) >= 4 => CountIsSegments


\* ---------------------------------------------------------- flat containers

ContainerTags == {DFMapType, DFListType, DFLargeMapType, DFLargeListType}

\* C17: after a SegmentMap.Read, a SegmentList.Read or a WireMsg.Read that
\* returned nil, no member of the map or list read has the tag of a map, a
\* list, a large map or a large list
ContainersFlat ==
    /\ (pc = "mapread" /\ rerr = NoErr)
        => \A k \in DOMAIN rsm : rsm[k].Type \notin ContainerTags
    /\ (pc = "listread" /\ rerr = NoErr)
        => \A i \in 1..Len(rsl) : rsl[i].Type \notin ContainerTags
    /\ (pc = "read" /\ rerr = NoErr)
        => \A k \in DOMAIN um.Attachments : um.Attachments[k].Type \notin ContainerTags


\* ------------------------------------------------------- messages of a peer

\* C18: when WireMsg.Read returns an error, the receiver's MsgCode and
\* Attachments are what they were before the call: those of a new message
FailedReadLeavesNothing ==
    (pc = "read" /\ rerr # NoErr) => um = NewWireMsg(<<>>)

\* Segment.Read decodes the octets raw
Decodes(raw) == SegmentRead(ZeroSegment, New(raw)).err = NoErr

\* of the message the peer sent: the segment after the pairs its map index
\* declares, and whether the start marker, the command code and the map with
\* those pairs are such that WireMsg.Read gets to that segment
PeerFollowing == peer[3 + 2 * count]
PeerMapRead ==
    /\ peer[1] = <<DFDocumentStart, 1>> /\ peer[2][1] = DFStringType
    /\ SegmentMapRead(EmptyMap, New(<<DFMapType, 0, count>>
                                    \o Concat(SubSeq(peer, 3, 2 + 2 * count)))).err = NoErr

\* C19: WireMsg.Read returns ErrInvalidMsg when the first segment of the
\* stream is not a start marker, and when the segment that follows the
\* attachment map is not an end marker
MarkersChecked ==
    pc = "read" =>
        /\ (Decodes(peer[1]) /\ peer[1][1] # DFDocumentStart) => rerr = ErrInvalidMsg
        /\ (PeerMapRead /\ Decodes(PeerFollowing) /\ PeerFollowing[1] # DFDocumentEnd)
            => rerr = ErrInvalidMsg

\* a message with one pair that ends with a second start marker was read and
\* refused with ErrInvalidMsg
SecondStartRefused ==
    /\ pc = "read" /\ count = 1 /\ PeerMapRead
    /\ PeerFollowing = <<DFDocumentStart, 1>>
    /\ rerr = ErrInvalidMsg


\* ------------------------------------------------------------ attachments

\* the last Attach call returned nil
LastAttached == pc \in {"attach", "fetched"} /\ steps >= 1 /\ werr = NoErr

\* C20: after a sequence of Attach calls the last of which returned nil, the
\* name of that call is in the map, the number of attachments is one more than
\* before when the name was new and the same when it was not, the attachments
\* under the other names are what they were, and the getter of the type
\* attached, called with that name, returns the value attached and nil
LastAttachWins ==
    LastAttached =>
        /\ DOMAIN wm.Attachments = DOMAIN last.before \cup {last.name}
        /\ Cardinality(DOMAIN wm.Attachments)
             = Cardinality(DOMAIN last.before)
               + (IF last.name \in DOMAIN last.before THEN 0 ELSE 1)
        /\ \A n \in DOMAIN last.before \ {last.name} :
              wm.Attachments[n] = last.before[n]
        /\ (pc = "fetched" /\ last.getter = last.kind /\ last.asked = last.name)
            => (rerr = NoErr /\ got = last.value)

\* the same for the names of one octet or more
LastNamedAttachWins == last.name # <<>> => LastAttachWins


\* C21: a getter of WireMsg called with a name that is not among the
\* attachments of the message returns ErrNotFound, also when the message has
\* no attachment at all
MissingNameNotFound ==
    (pc = "fetched" /\ last.asked \notin DOMAIN wm.Attachments) => rerr = ErrNotFound

\* the same for the eight numeric getters
MissingNumberNotFound ==
    last.getter \notin {"String", "Binary"} => MissingNameNotFound

\* the same for GetString and GetBinary asked for a name of one octet or more
\* in a message that has an attachment
MissingTextNotFound ==
    (last.asked # <<>> /\ wm.Attachments # EmptyMap) => MissingNameNotFound


\* --------------------------------------------------------- FlattenSegment

\* what WriteSegment puts on a stream with room for the tag, the size field
\* and the value of the segment
SegmentWritten ==
    Written(WriteSegment(Make(Len(seg.Value) + sizeSegmentSize(seg.Type) + 1),
                         seg.Type, seg.Value).bs)

\* C22: for every tag and every value of one octet or more FlattenSegment
\* returns nil and the octets WriteSegment writes: the tag, the size field
\* where the tag is a string or binary one, and the value
FlattenedAsWritten ==
    (pc = "segflat" /\ seg.Value # <<>>)
        => /\ werr = NoErr
           /\ buf = <<seg.Type>>
                    \o (IF sizeSegmentSize(seg.Type) = 0 THEN <<>>
                        ELSE BigEndian(NumOf(Len(seg.Value)), sizeSegmentSize(seg.Type)))
                    \o seg.Value
           /\ buf = SegmentWritten

\* the same for the regular string and binary tags and values of at most
\* MaxRegular octets
FlattenedRegularAsWritten ==
    (seg.Type \in {DFStringType, DFBinaryType} /\ Len(seg.Value) <= MaxRegular)
        => FlattenedAsWritten


\* ------------------------------------------------------ the steps of a read

\* the positions of a run of WireMsg.Read and the position after each
ReadPositions == {"msgwire", "readcode", "readmap", "readend", "readcheck"}
ReadFollower ==
    [msgwire |-> "readcode", readcode |-> "readmap", readmap |-> "readend",
     readend |-> "readcheck", readcheck |-> "read"]

\* a step of a run of Read goes to the next position of the list without an
\* error or returns; a step that found an error returns; and after the return
\* nothing is taken from the stream
ReadStepOrdered ==
    /\ pc \in ReadPositions
        => /\ pc' \in {ReadFollower[pc], "read"}
           /\ rerr' # NoErr => pc' = "read"
           /\ steps' = steps + 1
    /\ pc = "read" => wire' = wire /\ pc' = "read"

\* C23: every WireMsg.Read on the octets of a peer takes the steps start
\* marker, command code, attachment map, end marker, count test in that order,
\* each at most once; a step that fails ends the call with its error and
\* nothing more is taken from the stream; and the call ends, with nil or an
\* error
ReadRunsInOrder ==
    /\ [][(pc \in ReadPositions \cup {"read"}) => ReadStepOrdered]_vars
    /\ (pc = "msgwire") ~> (pc = "read")

\* the steps taken one by one end where WireMsg.Read as a whole ends
ReadStepsAgree ==
    pc = "read" =>
        /\ steps <= Cardinality(ReadPositions)
        /\ [wm |-> um, bs |-> wire, err |-> rerr]
             = WireMsgRead(NewWireMsg(<<>>), New(buf))

\* a read that failed at the command code has returned with octets of the
\* message still on the stream
ReadStoppedEarly ==
    /\ pc = "read" /\ steps = 2 /\ rerr = ErrTypeError
    /\ wire.Index < Len(buf)


\* ------------------------------------------------- the size field written

\* the octets of a message that Flatten returned or Write put on the stream
Emitted == IF pc = "flat" THEN buf ELSE wire.Buffer

\* C24: when Flatten or Write succeeds, the size field of the command code
\* segment, the two octets after its tag read as a big-endian number, is the
\* length of the command code, for codes shorter than, as long as and longer
\* than MaxRegular octets.
SizeFieldIsLength ==
    (pc \in {"flat", "written"} /\ werr = NoErr)
        => /\ Emitted[3] = DFStringType
           /\ Emitted[4] * 256 + Emitted[5] = Len(wm.MsgCode)

\* the same for the command codes of at most MaxRegular octets
RegularSizeFieldIsLength ==
    (pc \in {"flat", "written"} /\ werr = NoErr /\ Len(wm.MsgCode) <= MaxRegular)
        => /\ Emitted[3] = DFStringType
           /\ Emitted[4] * 256 + Emitted[5] = Len(wm.MsgCode)


\* ------------------------------------------------ CountSegments comes back

\* C25: every call of CountSegments returns, whatever the buffer, also when
\* a huge string in it declares a size of 2^63 or more, which is a negative
\* offset for Seek.
CountSegmentsReturns == (pc = "counting") ~> (pc = "counted")

\* the buffer holds a huge string whose declared size, as an int64, is -9
SeeksBackward == \E i \in 1..Len(peer) : peer[i] = HugeBackward

\* the calls on buffers without such a segment return, those with a declared
\* size of 2^63 among them
ForwardCountReturns == (pc = "counting" /\ ~SeeksBackward) ~> (pc = "counted")

\* a call that returned is the call as a whole
CountPassesAgree ==
    (pc = "counted" /\ ~SeeksBackward)
        => [n |-> count, err |-> rerr] = CountSegments(buf)


\* ------------------------------------------------- reads from a connection

\* what Segment.Read makes of the octets when one Read delivers them all
ReadWhole == SegmentRead(ZeroSegment, New(buf))

\* C26: Segment.Read on a connection that delivers the octets of a written
\* segment in two parts returns the segment and the error it returns when
\* the octets come in one part, wherever the parts are divided.
SplitReadSame ==
    pc = "segreadsplit" => (rseg = ReadWhole.seg /\ rerr = ReadWhole.err)

\* the same when the division is where the segment ends, or where its tag
\* or its size field ends
SplitAtFieldSame ==
    (pc = "segreadsplit"
       /\ count \in {0, 1, 1 + sizeSegmentSize(buf[1])} \cup {n \in {Len(buf)} : n <= MaxCut})
        => (rseg = ReadWhole.seg /\ rerr = ReadWhole.err)


\* ------------------------------------------------- the pairs of a message

\* the keys of the pairs the map index of the message declares
DeclaredKeys == {peer[1 + 2 * i] : i \in 1..count}

\* the attachments are as many as the index declared, and the count of the
\* end marker that was taken is 2 + 2 x that number
PairsAsDeclared ==
    /\ Cardinality(DOMAIN um.Attachments) = count
    /\ PeerFollowing[9] = 2 + 2 * count

\* C27: after WireMsg.Read returns nil the message has as many attachments
\* as the map index declared pairs, and the end marker count that was
\* accepted is 2 + 2 x the declared pair count, also when a key occurs more
\* than once among the pairs.
ReadKeepsDeclaredPairs == (pc = "read" /\ rerr = NoErr) => PairsAsDeclared

\* the same for the messages whose declared pairs have different keys
ReadKeepsDistinctPairs ==
    (pc = "read" /\ rerr = NoErr /\ Cardinality(DeclaredKeys) = count)
        => PairsAsDeclared


\* ------------------------------------------------ a list that is no list

\* the first segment of the octets decodes and its tag is none of the two
NotIndexed(small, large) == Decodes(buf) /\ buf[1] \notin {small, large}

\* C28: SegmentList.Read returns an error and appends nothing when the
\* first segment of the buffer is not a list or large-list index, as
\* SegmentMap.Read returns ErrTypeError when the first segment is not a map
\* or large-map index.
NonListRefused ==
    /\ (pc = "listread" /\ NotIndexed(DFListType, DFLargeListType))
        => (rerr # NoErr /\ rsl = <<>>)
    /\ (pc = "mapread" /\ NotIndexed(DFMapType, DFLargeMapType))
        => (rerr = ErrTypeError /\ rsm = EmptyMap)

\* what holds of the two: the list is left as it was, and the map read fails
NonListLeftAlone ==
    /\ (pc = "listread" /\ NotIndexed(DFListType, DFLargeListType)) => rsl = <<>>
    /\ (pc = "mapread" /\ NotIndexed(DFMapType, DFLargeMapType))
        => (rerr = ErrTypeError /\ rsm = EmptyMap)


\* ------------------------------------------------ setters and other values

\* C29: a typed setter called on a Segment copied out of a message's
\* attachments changes neither the tag nor the bytes of the Segment the
\* message holds: the attachments are what they were when the copy was taken.
SetterLeavesOthers == pc = "taken" => wm.Attachments = um.Attachments

\* what holds: the names, the tags and the lengths of the attachments are
\* what they were
SetterLeavesTags ==
    pc = "taken" =>
        /\ DOMAIN wm.Attachments = DOMAIN um.Attachments
        /\ \A n \in DOMAIN wm.Attachments :
              /\ wm.Attachments[n].Type = um.Attachments[n].Type
              /\ Len(wm.Attachments[n].Value) = Len(um.Attachments[n].Value)


\* ------------------------------------------------- the Index of a stream

IndexInRange == 0 <= wire.Index /\ wire.Index <= wire.BufferLength

\* the call just made was ReadAt or WriteAt, or it returned an error
LeavesIndex == steps' = steps + 1 /\ (pc' \in {"ReadAt", "WriteAt"} \/ rerr' # NoErr)

\* C30: through every sequence of Read, ReadAt, ReadByte, Write, WriteAt,
\* WriteByte and Seek calls 0 <= Index <= BufferLength; ReadAt and WriteAt
\* leave Index as it was, and so does every call that returns an error.
IndexKeptInRange ==
    /\ [](IndexInRange)
    /\ [][LeavesIndex => wire'.Index = wire.Index]_vars

\* the same of the calls other than Seek: each keeps an Index that is in
\* range in range, ReadAt and WriteAt and the calls that fail do not move it;
\* and no call makes the Index negative
IndexKeptButBySeek ==
    /\ [](wire.Index >= 0)
    /\ [][(steps' = steps + 1 /\ pc' # "Seek" /\ IndexInRange)
            => /\ IndexInRange'
               /\ LeavesIndex => wire'.Index = wire.Index]_vars

====
